---------------------------- MODULE Spec2Model ----------------------------
(***************************************************************************)
(* The from-scratch k-means engine of kmeans.py (class KMeans) as a state  *)
(* machine.  Points have integer coordinates; centroids are exact          *)
(* rationals (the mean of integers), with a distinguished not-a-number     *)
(* value for the mean of an empty slice.  Labels and centroid indices are  *)
(* 0-based as in the source; TLA+ sequences are 1-based, so centroid j     *)
(* sits at position j + 1.  The functions of sql_connection.py and of      *)
(* azure-entra-agent/entra_agent.py are modelled beside it, each under a   *)
(* specification of its own (SqlSpec, EntraSpec), and so are the main      *)
(* functions of the scripts, step by step: sql_connection.main             *)
(* (SqlMainSpec), entra_agent.main (EntraMainSpec), test_setup.main        *)
(* (SetupSpec) and run_workflow of openai-agentkit.py (WorkflowSpec).      *)
(***************************************************************************)
EXTENDS Integers, Sequences, FiniteSets, TLC

(* ------------------------------ bounds -------------------------------- *)

\* largest number of points of a PointSet
MaxN == 3
\* largest coordinate of a one-dimensional point (coordinates are 0..MaxCoord)
MaxCoord == 3
\* largest dimension D of a point; points of dimension > 1 have 0/1 coordinates
MaxDim == 2
\* largest configured n_clusters (the smallest is -1)
MaxK == 3
\* largest configured max_iter (the smallest is 0)
MaxIter == 3
\* largest configured random_state
MaxSeed == 1
\* number of states of the global random source
RngSize == 6
\* number of fit calls in one behaviour
MaxFits == 2
\* draws by other users of the global random source between two calls
MaxDraws == 1

(* ----------------------------- optionals ------------------------------ *)

\* Python's None and a present value, as sequences of length 0 and 1
None == << >>
Some(v) == << v >>
IsNone(o) == Len(o) = 0
Val(o) == o[1]

(* ----------------------------- rationals ------------------------------ *)

RECURSIVE GCD(_, _)
GCD(a, b) == IF b = 0 THEN a ELSE GCD(b, a % b)

Abs(a) == IF a < 0 THEN -a ELSE a

\* a float value: the rational n/d in lowest terms, d > 0; d = 0 is not-a-number
NaN == [n |-> 0, d |-> 0]
IsNaN(r) == r.d = 0
Rat(n, d) ==
    LET g == GCD(Abs(n), d)
    IN  IF n < 0 THEN [n |-> -(Abs(n) \div g), d |-> d \div g]
        ELSE [n |-> n \div g, d |-> d \div g]
FromInt(i) == [n |-> i, d |-> 1]

RatAdd(a, b) ==
    IF IsNaN(a) \/ IsNaN(b) THEN NaN ELSE Rat(a.n * b.d + b.n * a.d, a.d * b.d)

\* IEEE comparison: every comparison with not-a-number is false
RatLeq(a, b) == ~IsNaN(a) /\ ~IsNaN(b) /\ a.n * b.d <= b.n * a.d

(* ------------------------------ inputs -------------------------------- *)

Points(D) == [1..D -> 0..(IF D = 1 THEN MaxCoord ELSE 1)]

\* lexicographic order of two points of the same dimension
LexLeq(x, y) ==
    \/ x = y
    \/ \E k \in 1..Len(x) : x[k] < y[k] /\ \A m \in 1..(k - 1) : x[m] = y[m]

\* the PointSets a caller may pass: N >= 1 points of one dimension D >= 1.
\* The engine treats the points alike whatever their order (a permutation of
\* the points permutes the labels) and every tuple of initial indices is
\* drawn, so the points are listed in non-decreasing order.
PointSets ==
    UNION { UNION { {Xa \in [1..N -> Points(D)] :
                       \A i \in 1..(N - 1) : LexLeq(Xa[i], Xa[i + 1])}
                    : N \in 1..MaxN } : D \in 1..MaxDim }

NPoints(Xa) == Len(Xa)
Dim(Xa) == Len(Xa[1])

(* ------------------- the global random source (numpy) ----------------- *)

RngStates == 0..(RngSize - 1)

\* np.random.seed(s): the state of the source becomes a function of s alone
SeedState(s) == (2 * s + 1) % RngSize

\* the state of the source after one np.random.choice
RngNext(g) == (g + 1) % RngSize

RemoveAt(q, i) == [k \in 1..(Len(q) - 1) |-> IF k < i THEN q[k] ELSE q[k + 1]]

RECURSIVE Draw(_, _, _)
\* k successive draws without replacement from the sequence pool, driven by g
Draw(g, pool, k) ==
    IF k = 0 THEN << >>
    ELSE LET i == (g % Len(pool)) + 1
         IN  << pool[i] >> \o Draw(g \div Len(pool), RemoveAt(pool, i), k - 1)

\* Choice drawing with replacement: an index may be chosen twice
ChoiceWithReplacement(g, N, K) == [j \in 1..K |-> (g \div j) % N]

\* np.random.choice(N, K, replace=False) for 0 <= K <= N in state g:
\* K pairwise distinct indices of 0..N-1, in the order drawn
Choice(g, N, K) == Draw(g, [i \in 1..N |-> i - 1], K)

(* -------------------------- _assign_labels ---------------------------- *)

RECURSIVE SumRat(_, _)
SumRat(f, k) == IF k = 0 THEN FromInt(0) ELSE RatAdd(SumRat(f, k - 1), f[k])

\* ((x - c) ** 2).sum(): the squared Euclidean distance of point x to centroid c.
\* np.sqrt is monotone, so the argmin over distances is the argmin over these.
Dist2(x, c) ==
    IF \E k \in 1..Len(c) : IsNaN(c[k]) THEN NaN
    ELSE SumRat([k \in 1..Len(x) |->
                    Rat((x[k] * c[k].d - c[k].n) * (x[k] * c[k].d - c[k].n),
                        c[k].d * c[k].d)], Len(x))

\* np.argmin over a non-empty row: the first not-a-number if there is one,
\* otherwise the first minimum; 0-based
ArgMin(row) ==
    LET nans == {j \in 1..Len(row) : IsNaN(row[j])}
        mins == {j \in 1..Len(row) : \A m \in 1..Len(row) : RatLeq(row[j], row[m])}
        first(S) == CHOOSE j \in S : \A m \in S : j <= m
    IN  IF nans # {} THEN first(nans) - 1 ELSE first(mins) - 1

\* AssignLabels leaving out the last point
AssignLabelsDropLast(Xa, C) ==
    [p \in 1..(Len(Xa) - 1) |-> ArgMin([j \in 1..Len(C) |-> Dist2(Xa[p], C[j])])]

\* _assign_labels(X) against the centroid array C (K >= 1 centroids)
AssignLabels(Xa, C) ==
    [p \in 1..Len(Xa) |-> ArgMin([j \in 1..Len(C) |-> Dist2(Xa[p], C[j])])]

(* ------------------------- _update_centroids -------------------------- *)

Members(lab, i) == {p \in 1..Len(lab) : lab[p] = i}

RECURSIVE SumCoord(_, _, _)
SumCoord(Xa, S, k) ==
    IF S = {} THEN 0
    ELSE LET p == CHOOSE q \in S : TRUE IN Xa[p][k] + SumCoord(Xa, S \ {p}, k)

\* MeanOf dividing with integer division
MeanOfFloorDiv(Xa, S) ==
    [k \in 1..Dim(Xa) |->
        IF S = {} THEN NaN ELSE FromInt(SumCoord(Xa, S, k) \div Cardinality(S))]

\* X[labels == i].mean(axis=0): the mean of an empty slice is not-a-number
\* in every coordinate (numpy warns and does not raise)
MeanOf(Xa, S) ==
    [k \in 1..Dim(Xa) |->
        IF S = {} THEN NaN ELSE Rat(SumCoord(Xa, S, k), Cardinality(S))]

\* UpdateCentroids comparing the labels with 1..K instead of 0..K-1
UpdateCentroidsFromOne(Xa, lab, K) == [j \in 1..K |-> MeanOf(Xa, Members(lab, j))]

\* _update_centroids(X): one mean per centroid index 0..K-1
UpdateCentroids(Xa, lab, K) == [j \in 1..K |-> MeanOf(Xa, Members(lab, j - 1))]

(* ---------------------------- np.allclose ----------------------------- *)

\* 1 / atol and 1 / rtol of np.allclose (atol = 1e-8, rtol = 1e-5)
AtolInv == 100000000
RtolInv == 100000

\* np.isclose(a, b): |a - b| <= atol + rtol * |b|, false for not-a-number.
\* Multiplied through by a.d * b.d * AtolInv; the left side is an integer.
IsClose(a, b) ==
    /\ ~IsNaN(a)
    /\ ~IsNaN(b)
    /\ Abs(a.n * b.d - b.n * a.d)
         <= (a.d * b.d + (AtolInv \div RtolInv) * Abs(b.n) * a.d) \div AtolInv

AllClose(A, B) ==
    \A j \in 1..Len(A) : \A k \in 1..Len(A[j]) : IsClose(A[j][k], B[j][k])

(* ------------------------------- state -------------------------------- *)

(* ===================== the scripts beside the engine ================== *)
(* sql_connection.py and azure-entra-agent/entra_agent.py are synchronous *)
(* functions over the process environment and a third-party client.  Each *)
(* call is one action; what the client answers (a value or an exception)  *)
(* is an input of the action.  A call is recorded in `out` with the calls *)
(* it made to its collaborators, in order.                                *)

\* Python truthiness of an optional string: None and "" are false
StrTruthy(o) == ~IsNone(o) /\ Val(o) # ""

\* os.getenv(name, default) and os.environ.get(name, default)
GetEnv(env, name, default) == IF IsNone(env[name]) THEN default ELSE env[name]

\* the value a variable has when it is set to a non-empty string
EnvValue ==
    [ SQL_SERVER |-> "envserver", SQL_DATABASE |-> "envdb",
      SQL_USERNAME |-> "envuser", SQL_PASSWORD |-> "envpass",
      AZURE_CLIENT_ID |-> "client-id", AZURE_CLIENT_SECRET |-> "client-secret",
      AZURE_TENANT_ID |-> "tenant-id", USER_AGENT_NAME |-> "custom-agent" ]

EnvNames == DOMAIN EnvValue

\* the environment in which each variable of c is unset, empty or set, and
\* every other variable is unset
Environ(c) ==
    [n \in EnvNames |->
        IF n \notin DOMAIN c \/ c[n] = "unset" THEN None
        ELSE IF c[n] = "empty" THEN Some("") ELSE Some(EnvValue[n])]

\* an exception object: its class, the Graph error it carries (ODataError
\* only: None, or a code and a message) and str(e)
Exc(type, error, message) == [type |-> type, error |-> error, message |-> message]

\* the classes of the exceptions modelled; all derive from Exception
ExceptionTypes ==
    {"Exception", "pyodbc.Error", "ODataError", "ValueError", "AttributeError",
     "EOFError", "ImportError"}

\* isinstance(e, cls), which decides whether `except cls` catches e
IsInstance(e, cls) ==
    e.type = cls \/ (cls = "Exception" /\ e.type \in ExceptionTypes)

\* how a function ends: a value returned or an exception propagated, after
\* the given calls to its collaborators
Returned(v, calls) == [raised |-> None, ret |-> v, calls |-> calls]
Raised(e, calls) == [raised |-> Some(e), ret |-> None, calls |-> calls]

\* the record of a call: the function, its arguments, what its collaborator
\* was going to answer, and how it ended
Called(op, args, given, r) ==
    [op |-> op, args |-> args, given |-> given,
     raised |-> r.raised, ret |-> r.ret, calls |-> r.calls]

\* a call made to a collaborator
CallTo(fn, args) == [fn |-> fn, args |-> args]

\* the environment with no variable set, and the record of no call yet
NoEnviron == [n \in EnvNames |-> None]
NoCall == Called("none", << >>, None, Returned(None, << >>))

\* collaborators that hold no connection and have seen no call
NoWorld == [open |-> << >>, events |-> << >>]

(* ------------------------------- state -------------------------------- *)

VARIABLES
    n_clusters,       \* self.n_clusters
    max_iter,         \* self.max_iter
    random_state,     \* self.random_state: None or Some(seed)
    centroids,        \* self.centroids: None or Some(array of K centroids)
    labels,           \* self.labels: None or Some(array of N labels)
    rng,              \* the state of numpy's global random source
    pc,               \* "idle", or the position of the fit in progress
    X,                \* the argument of the fit in progress or last called
    initial_indices,  \* fit's local initial_indices
    it,               \* loop iterations of that fit whose body has started
    call,             \* the last call: what it was, what it raised or returned
    last_fit,         \* how that fit stands: "none", "running", "returned", "raised"
    pre,              \* X, initial_indices, centroids, labels and last_fit on
                      \* entry of that fit
    wcss,             \* within-cluster sum of squares after each assignment step
    nfits,            \* fit calls so far
    environ,          \* os.environ: each variable None (unset) or Some(string)
    agent,            \* the EntraUserLookupAgent constructed: None or Some(object)
    out,              \* the last call of a function of the scripts
    at,               \* the position of the main function that is running
    local,            \* its local variables
    world             \* what its collaborators hold: open connections, the
                      \* calls received and the lines printed, in order

\* the variables of the k-means engine and those of the scripts
engine == << n_clusters, max_iter, random_state, centroids, labels, rng, pc, X,
             initial_indices, it, call, last_fit, pre, wcss, nfits >>
scripts == << environ, agent, out, at, local, world >>
running == << at, local, world >>

vars == << n_clusters, max_iter, random_state, centroids, labels, rng, pc, X,
           initial_indices, it, call, last_fit, pre, wcss, nfits,
           environ, agent, out, at, local, world >>

config == << n_clusters, max_iter, random_state >>

Seeds == {None} \cup {Some(s) : s \in 0..MaxSeed}

\* KMeans.__init__: the fields as given, centroids and labels None
Init ==
    /\ n_clusters \in -1..MaxK
    /\ max_iter \in 0..MaxIter
    /\ random_state \in Seeds
    /\ centroids = None
    /\ labels = None
    /\ rng \in RngStates
    /\ pc = "idle"
    /\ X = None
    /\ initial_indices = << >>
    /\ it = 0
    /\ call = [op |-> "init", raised |-> "none", arg |-> None, ret |-> None]
    /\ last_fit = "none"
    /\ pre = [X |-> None, initial_indices |-> << >>, centroids |-> None,
              labels |-> None, last_fit |-> "none"]
    /\ wcss = << >>
    /\ nfits = 0
    /\ environ = NoEnviron
    /\ agent = None
    /\ out = NoCall
    /\ at = "none"
    /\ local = << >>
    /\ world = NoWorld

\* the engine as KMeans() leaves it (line 6: three clusters, 300 iterations,
\* no seed) and never called: the state of the engine in the scripts, which
\* do not use it
NoEngine ==
    /\ n_clusters = 3
    /\ max_iter = 300
    /\ random_state = None
    /\ centroids = None
    /\ labels = None
    /\ rng = 0
    /\ pc = "idle"
    /\ X = None
    /\ initial_indices = << >>
    /\ it = 0
    /\ call = [op |-> "init", raised |-> "none", arg |-> None, ret |-> None]
    /\ last_fit = "none"
    /\ pre = [X |-> None, initial_indices |-> << >>, centroids |-> None,
              labels |-> None, last_fit |-> "none"]
    /\ wcss = << >>
    /\ nfits = 0

\* `if self.random_state:` is Python truthiness: None and 0 are both false
Truthy(o) == ~IsNone(o) /\ Val(o) # 0

\* the source after lines 14-15
Seeded(g, seed) == IF Truthy(seed) THEN SeedState(Val(seed)) ELSE g

\* the value fit or predict ends with when it raises
Raise(op, exc, arg) == [op |-> op, raised |-> exc, arg |-> arg, ret |-> None]
Return(op, arg, v) == [op |-> op, raised |-> "none", arg |-> arg, ret |-> v]

\* the source after d draws
RECURSIVE Advance(_, _)
Advance(g, d) == IF d = 0 THEN g ELSE Advance(RngNext(g), d - 1)

\* InitialIndices clamping the sample to the population instead of raising
InitialIndicesClamped(g, N, K) ==
    IF K < 0 THEN None ELSE Some(Choice(g, N, IF K > N THEN N ELSE K))

\* line 18, np.random.choice(X.shape[0], self.n_clusters, replace=False) in
\* source state g: numpy raises ValueError for a sample larger than the
\* population and for a negative size (None here), otherwise the indices
InitialIndices(g, N, K) ==
    IF K > N \/ K < 0 THEN None ELSE Some(Choice(g, N, K))

\* Take leaving out the row of the last index chosen
TakeDropLast(Xa, idx) ==
    [j \in 1..(Len(idx) - 1) |-> [k \in 1..Dim(Xa) |-> FromInt(Xa[idx[j] + 1][k])]]

\* line 19, X[initial_indices]: a new array holding the chosen rows
Take(Xa, idx) ==
    [j \in 1..Len(idx) |-> [k \in 1..Dim(Xa) |-> FromInt(Xa[idx[j] + 1][k])]]

\* fit(Xa), lines 13-21: seed, choose the initial indices, copy those points as
\* the centroids, enter the loop.  Other users of numpy's global random
\* source have drawn d times from it since the last call.
Fit(Xa, d) ==
    /\ pc = "idle"
    /\ nfits < MaxFits
    /\ nfits' = nfits + 1
    /\ X' = Some(Xa)
    /\ pre' = [X |-> X, initial_indices |-> initial_indices,
               centroids |-> centroids, labels |-> labels, last_fit |-> last_fit]
    /\ it' = 0
    /\ wcss' = << >>
    /\ UNCHANGED << config, labels, scripts >>
    /\ LET g == Seeded(Advance(rng, d), random_state)
           chosen == InitialIndices(g, NPoints(Xa), n_clusters)
       IN  IF IsNone(chosen)
           THEN /\ rng' = g
                /\ call' = Raise("fit", "ValueError", None)
                /\ last_fit' = "raised"
                /\ pc' = "idle"
                /\ UNCHANGED << centroids, initial_indices >>
           ELSE /\ rng' = RngNext(g)
                /\ initial_indices' = Val(chosen)
                /\ centroids' = Some(Take(Xa, Val(chosen)))
                /\ IF max_iter <= 0
                   THEN /\ pc' = "idle"
                        /\ last_fit' = "returned"
                        /\ call' = Return("fit", None, None)
                   ELSE /\ pc' = "assign"
                        /\ last_fit' = "running"
                        /\ call' = [op |-> "fit", raised |-> "running",
                                    arg |-> None, ret |-> None]

\* sum over the points of the squared distance to the centroid they are assigned to
Inertia(Xa, C, lab) ==
    SumRat([p \in 1..Len(lab) |-> Dist2(Xa[p], C[lab[p] + 1])], Len(lab))

\* line 23: self.labels = self._assign_labels(X).  With no centroid at all
\* (K = 0) np.argmin raises ValueError on the empty rows.
AssignStep ==
    /\ pc = "assign"
    /\ it' = it + 1
    /\ UNCHANGED << config, centroids, rng, X, initial_indices, pre, nfits,
                    scripts >>
    /\ IF Len(Val(centroids)) = 0
       THEN /\ call' = Raise("fit", "ValueError", None)
            /\ last_fit' = "raised"
            /\ pc' = "idle"
            /\ UNCHANGED << labels, wcss >>
       ELSE LET lab == AssignLabels(Val(X), Val(centroids))
            IN  /\ labels' = Some(lab)
                /\ wcss' = Append(wcss, Inertia(Val(X), Val(centroids), lab))
                /\ pc' = "update"
                /\ UNCHANGED << call, last_fit >>

\* the PointSet after new centroid rows C are written into the rows idx they
\* were taken from (an integer array keeps the integer part; a not-a-number
\* value is not written)
WriteRows(Xa, idx, C) ==
    [p \in 1..Len(Xa) |->
        IF \E j \in 1..Len(idx) : idx[j] + 1 = p
        THEN LET j == CHOOSE i \in 1..Len(idx) : idx[i] + 1 = p
             IN  [k \in 1..Len(Xa[p]) |->
                    IF IsNaN(C[j][k]) THEN Xa[p][k] ELSE C[j][k].n \div C[j][k].d]
        ELSE Xa[p]]

\* UpdateStep with the centroids held as a view of the rows of X and replaced
\* in place (self.centroids[:] = new_centroids)
UpdateStepInPlace ==
    /\ pc = "update"
    /\ UNCHANGED << config, labels, rng, initial_indices, it, pre, wcss, nfits,
                    scripts >>
    /\ LET new_centroids == UpdateCentroids(Val(X), Val(labels), n_clusters)
       IN  IF AllClose(Val(centroids), new_centroids)
           THEN /\ pc' = "idle"
                /\ last_fit' = "returned"
                /\ call' = Return("fit", None, None)
                /\ UNCHANGED << centroids, X >>
           ELSE /\ centroids' = Some(new_centroids)
                /\ X' = Some(WriteRows(Val(X), initial_indices, new_centroids))
                /\ IF it < max_iter
                   THEN /\ pc' = "assign"
                        /\ UNCHANGED << call, last_fit >>
                   ELSE /\ pc' = "idle"
                        /\ last_fit' = "returned"
                        /\ call' = Return("fit", None, None)

\* UpdateStep of a loop that goes round once more than max_iter allows
UpdateStepOneMore ==
    /\ pc = "update"
    /\ UNCHANGED << config, labels, rng, X, initial_indices, it, pre, wcss, nfits,
                    scripts >>
    /\ LET new_centroids == UpdateCentroids(Val(X), Val(labels), n_clusters)
       IN  IF AllClose(Val(centroids), new_centroids)
           THEN /\ pc' = "idle"
                /\ last_fit' = "returned"
                /\ call' = Return("fit", None, None)
                /\ UNCHANGED centroids
           ELSE /\ centroids' = Some(new_centroids)
                /\ IF it <= max_iter
                   THEN /\ pc' = "assign"
                        /\ UNCHANGED << call, last_fit >>
                   ELSE /\ pc' = "idle"
                        /\ last_fit' = "returned"
                        /\ call' = Return("fit", None, None)

\* lines 26-32: compute the new centroids; break when they are close to the
\* current ones, otherwise store them and go on while iterations remain
UpdateStep ==
    /\ pc = "update"
    /\ UNCHANGED << config, labels, rng, X, initial_indices, it, pre, wcss, nfits,
                    scripts >>
    /\ LET new_centroids == UpdateCentroids(Val(X), Val(labels), n_clusters)
       IN  IF AllClose(Val(centroids), new_centroids)
           THEN /\ pc' = "idle"
                /\ last_fit' = "returned"
                /\ call' = Return("fit", None, None)
                /\ UNCHANGED centroids
           ELSE /\ centroids' = Some(new_centroids)
                /\ IF it < max_iter
                   THEN /\ pc' = "assign"
                        /\ UNCHANGED << call, last_fit >>
                   ELSE /\ pc' = "idle"
                        /\ last_fit' = "returned"
                        /\ call' = Return("fit", None, None)

\* Predict storing the labels it computes in self.labels, as fit does
PredictStoringLabels(Xa) ==
    /\ pc = "idle"
    /\ UNCHANGED << config, centroids, rng, pc, X, initial_indices, it,
                    last_fit, pre, wcss, nfits,
                    scripts >>
    /\ IF IsNone(centroids)
       THEN /\ call' = Raise("predict", "TypeError", Some(Xa))
            /\ UNCHANGED labels
       ELSE IF Len(Val(centroids)) = 0
            THEN /\ call' = Raise("predict", "ValueError", Some(Xa))
                 /\ UNCHANGED labels
            ELSE /\ Dim(Xa) = Len(Val(centroids)[1])
                 /\ labels' = Some(AssignLabels(Xa, Val(centroids)))
                 /\ call' = Return("predict", Some(Xa), labels')

\* predict(Xa), lines 34-39: with centroids None the subtraction raises
\* TypeError; with an empty centroid array np.argmin raises ValueError
Predict(Xa) ==
    /\ pc = "idle"
    /\ UNCHANGED << config, centroids, labels, rng, pc, X, initial_indices, it,
                    last_fit, pre, wcss, nfits,
                    scripts >>
    /\ IF IsNone(centroids)
       THEN call' = Raise("predict", "TypeError", Some(Xa))
       ELSE IF Len(Val(centroids)) = 0
            THEN call' = Raise("predict", "ValueError", Some(Xa))
            ELSE /\ Dim(Xa) = Len(Val(centroids)[1])
                 /\ call' = Return("predict", Some(Xa),
                                   Some(AssignLabels(Xa, Val(centroids))))

\* the PointSets fit is called with: any on the first call, afterwards the
\* points of the previous fit or the first few of them
FitArgs ==
    IF IsNone(X) THEN PointSets
    ELSE {SubSeq(Val(X), 1, n) : n \in 1..Len(Val(X))}

\* the PointSets predict is called with: the training points, or any single
\* point (the labels are computed point by point)
PredictArgs ==
    (IF IsNone(X) THEN {} ELSE {Val(X)})
      \cup UNION { [1..1 -> Points(D)] : D \in 1..MaxDim }

Next ==
    \/ \E Xa \in FitArgs, d \in 0..MaxDraws : Fit(Xa, d)
    \/ AssignStep
    \/ UpdateStep
    \/ \E Xa \in PredictArgs : Predict(Xa)

Spec == Init /\ [][Next]_vars

(* -------------------------- sql_connection.py ------------------------- *)

\* the connection object pyodbc.connect returns for a connection string
Connection(connection_string) == [connection_string |-> connection_string]

\* what pyodbc.connect does: None for a connection, or the exception raised
DriverOutcomes ==
    { None,
      Some(Exc("pyodbc.Error", None, "Login failed")),
      Some(Exc("Exception", None, "Connection failed")) }

\* connect_sql_auth catching driver errors only
connect_sql_auth_driver_errors_only(server, database, username, password, o) ==
    LET connection_string ==
            << "DRIVER={ODBC Driver 17 for SQL Server};", "SERVER=", server, ";",
               "DATABASE=", database, ";", "UID=", username, ";",
               "PWD=", password >>
        calls == << CallTo("pyodbc.connect", << connection_string >>) >>
    IN  IF IsNone(o) THEN Returned(Some(Connection(connection_string)), calls)
        ELSE IF IsInstance(Val(o), "pyodbc.Error") THEN Returned(None, calls)
        ELSE Raised(Val(o), calls)

\* connect_sql_auth, lines 19-48: build the connection string, call
\* pyodbc.connect once, return the connection; `except pyodbc.Error` and
\* `except Exception` both return None
connect_sql_auth(server, database, username, password, o) ==
    LET connection_string ==
            << "DRIVER={ODBC Driver 17 for SQL Server};", "SERVER=", server, ";",
               "DATABASE=", database, ";", "UID=", username, ";",
               "PWD=", password >>
        calls == << CallTo("pyodbc.connect", << connection_string >>) >>
    IN  IF IsNone(o) THEN Returned(Some(Connection(connection_string)), calls)
        ELSE IF IsInstance(Val(o), "pyodbc.Error") THEN Returned(None, calls)
        ELSE IF IsInstance(Val(o), "Exception") THEN Returned(None, calls)
        ELSE Raised(Val(o), calls)

\* connect_windows_auth, lines 51-77: the same with Trusted_Connection=yes
connect_windows_auth(server, database, o) ==
    LET connection_string ==
            << "DRIVER={ODBC Driver 17 for SQL Server};", "SERVER=", server, ";",
               "DATABASE=", database, ";", "Trusted_Connection=yes" >>
        calls == << CallTo("pyodbc.connect", << connection_string >>) >>
    IN  IF IsNone(o) THEN Returned(Some(Connection(connection_string)), calls)
        ELSE IF IsInstance(Val(o), "pyodbc.Error") THEN Returned(None, calls)
        ELSE IF IsInstance(Val(o), "Exception") THEN Returned(None, calls)
        ELSE Raised(Val(o), calls)

\* get_connection_from_env choosing SQL authentication when either credential
\* is set
get_connection_from_env_either(env, o) ==
    LET server == Val(GetEnv(env, "SQL_SERVER", Some("localhost")))
        database == Val(GetEnv(env, "SQL_DATABASE", Some("master")))
        username == GetEnv(env, "SQL_USERNAME", None)
        password == GetEnv(env, "SQL_PASSWORD", None)
    IN  IF StrTruthy(username) \/ StrTruthy(password)
        THEN LET u == IF IsNone(username) THEN "" ELSE Val(username)
                 p == IF IsNone(password) THEN "" ELSE Val(password)
                 r == connect_sql_auth(server, database, u, p, o)
             IN  [r EXCEPT !.calls =
                    << CallTo("connect_sql_auth", << server, database, u, p >>) >>
                      \o r.calls]
        ELSE LET r == connect_windows_auth(server, database, o)
             IN  [r EXCEPT !.calls =
                    << CallTo("connect_windows_auth", << server, database >>) >>
                      \o r.calls]

\* get_connection_from_env, lines 107-130: server and database default to
\* localhost and master; `if username and password` chooses the function
get_connection_from_env(env, o) ==
    LET server == Val(GetEnv(env, "SQL_SERVER", Some("localhost")))
        database == Val(GetEnv(env, "SQL_DATABASE", Some("master")))
        username == GetEnv(env, "SQL_USERNAME", None)
        password == GetEnv(env, "SQL_PASSWORD", None)
    IN  IF StrTruthy(username) /\ StrTruthy(password)
        THEN LET r == connect_sql_auth(server, database, Val(username),
                                      Val(password), o)
             IN  [r EXCEPT !.calls =
                    << CallTo("connect_sql_auth",
                              << server, database, Val(username), Val(password) >>) >>
                      \o r.calls]
        ELSE LET r == connect_windows_auth(server, database, o)
             IN  [r EXCEPT !.calls =
                    << CallTo("connect_windows_auth", << server, database >>) >>
                      \o r.calls]

\* the query of test_connection, line 92
VersionQuery == "SELECT @@VERSION as version, GETDATE() as current_time"

\* the rows fetchone can return: None, or a row with the two columns
Rows ==
    { None,
      Some([version |-> "Microsoft SQL Server 2019",
            current_time |-> "2025-10-17 10:00:00"]) }

\* what a connection does in test_connection: cursor() and execute() succeed
\* (None) or raise, fetchone() returns a row or raises
ConnectionBehaviours ==
    [ cursor : {None, Some(Exc("Exception", None, "Query failed"))},
      execute : {None, Some(Exc("pyodbc.Error", None, "Invalid object name"))},
      fetchone_raises : {None, Some(Exc("pyodbc.Error", None, "No results"))},
      row : Rows ]

\* the calls made before the step of the given number (1 cursor, 2 execute,
\* 3 fetchone) has ended
StepsUpTo(n) ==
    SubSeq(<< CallTo("cursor", << >>), CallTo("execute", << VersionQuery >>),
              CallTo("fetchone", << >>) >>, 1, n)

\* lines 102-104: `except Exception as e` returns the failure result
ConnectionTestFailed(e, calls) ==
    IF IsInstance(e, "Exception")
    THEN Returned(Some([success |-> FALSE, error |-> e.message]), calls)
    ELSE Raised(e, calls)

\* test_connection reading the columns of the row without `if row`
test_connection_no_row_check(connection, b) ==
    IF ~IsNone(b.cursor) THEN ConnectionTestFailed(Val(b.cursor), StepsUpTo(1))
    ELSE IF ~IsNone(b.execute)
    THEN ConnectionTestFailed(Val(b.execute), StepsUpTo(2))
    ELSE IF ~IsNone(b.fetchone_raises)
    THEN ConnectionTestFailed(Val(b.fetchone_raises), StepsUpTo(3))
    ELSE IF IsNone(b.row)
    THEN ConnectionTestFailed(
            Exc("AttributeError", None,
                "'NoneType' object has no attribute 'version'"), StepsUpTo(3))
    ELSE Returned(Some([success |-> TRUE,
                        version |-> Val(b.row).version,
                        current_time |-> Val(b.row).current_time]),
                  StepsUpTo(3))

\* test_connection, lines 80-104: cursor, execute, fetchone; the columns of
\* the row, or "Unknown" when there is no row
test_connection(connection, b) ==
    IF ~IsNone(b.cursor) THEN ConnectionTestFailed(Val(b.cursor), StepsUpTo(1))
    ELSE IF ~IsNone(b.execute)
    THEN ConnectionTestFailed(Val(b.execute), StepsUpTo(2))
    ELSE IF ~IsNone(b.fetchone_raises)
    THEN ConnectionTestFailed(Val(b.fetchone_raises), StepsUpTo(3))
    ELSE Returned(
            Some([success |-> TRUE,
                  version |-> IF ~IsNone(b.row) THEN Val(b.row).version
                              ELSE "Unknown",
                  current_time |-> IF ~IsNone(b.row) THEN Val(b.row).current_time
                                   ELSE "Unknown"]),
            StepsUpTo(3))

\* the arguments the connect functions are called with
Servers == {"localhost", "badserver"}
Databases == {"master", "testdb"}
Usernames == {"testuser", ""}
Passwords == {"testpass"}

\* the environments of sql_connection.py: each of its four variables unset,
\* empty or set
SqlEnvirons ==
    { Environ(c) : c \in [ {"SQL_SERVER", "SQL_DATABASE", "SQL_USERNAME",
                            "SQL_PASSWORD"} -> {"unset", "empty", "set"} ] }

SqlInit ==
    /\ NoEngine
    /\ environ \in SqlEnvirons
    /\ agent = None
    /\ out = NoCall
    /\ at = "none"
    /\ local = << >>
    /\ world = NoWorld

ConnectSqlAuth(server, database, username, password, o) ==
    /\ out' = Called("connect_sql_auth",
                     << server, database, username, password >>, o,
                     connect_sql_auth(server, database, username, password, o))
    /\ UNCHANGED << engine, environ, agent, running >>

ConnectWindowsAuth(server, database, o) ==
    /\ out' = Called("connect_windows_auth", << server, database >>, o,
                     connect_windows_auth(server, database, o))
    /\ UNCHANGED << engine, environ, agent, running >>

GetConnectionFromEnv(o) ==
    /\ out' = Called("get_connection_from_env", << >>, o,
                     get_connection_from_env(environ, o))
    /\ UNCHANGED << engine, environ, agent, running >>

\* test_connection on the connection the last call returned
TestConnection(b) ==
    /\ out.op \in {"connect_sql_auth", "connect_windows_auth",
                   "get_connection_from_env"}
    /\ ~IsNone(out.ret)
    /\ out' = Called("test_connection", << Val(out.ret) >>, b,
                     test_connection(Val(out.ret), b))
    /\ UNCHANGED << engine, environ, agent, running >>

SqlNext ==
    \/ \E server \in Servers, database \in Databases, username \in Usernames,
          password \in Passwords, o \in DriverOutcomes :
            ConnectSqlAuth(server, database, username, password, o)
    \/ \E server \in Servers, database \in Databases, o \in DriverOutcomes :
            ConnectWindowsAuth(server, database, o)
    \/ \E o \in DriverOutcomes : GetConnectionFromEnv(o)
    \/ \E b \in ConnectionBehaviours : TestConnection(b)

SqlSpec == SqlInit /\ [][SqlNext]_vars

(* ----------------------- sql_connection.py: main ---------------------- *)
(* main, lines 133-192, step by step: three examples, each a connect call *)
(* followed, when it returned a connection, by test_connection (examples  *)
(* 1 and 2) and conn.close().  The driver keeps the connections that are  *)
(* open and the connect and close calls it received.                      *)

IsDriverCall(c) == c.fn = "pyodbc.connect"

\* the driver after a connect function ended as r, pyodbc.connect having
\* answered o: the call is recorded with the connection it returned or the
\* exception it raised, a connection returned is open
Opened(w, r, o) ==
    LET d == SelectSeq(r.calls, IsDriverCall)
    IN  [open |-> IF IsNone(r.ret) THEN w.open ELSE Append(w.open, Val(r.ret)),
         events |-> w.events \o
                      [i \in 1..Len(d) |->
                          [fn |-> d[i].fn, args |-> d[i].args,
                           ret |-> r.ret, raised |-> o]]]

\* the driver after conn.close() answered o: the call is recorded; unless
\* it raised, the connection is no longer open
Closed(w, conn, o) ==
    LET held == {i \in 1..Len(w.open) : w.open[i] = conn}
    IN  [open |-> IF held = {} \/ ~IsNone(o) THEN w.open
                  ELSE RemoveAt(w.open, CHOOSE i \in held : \A m \in held : i <= m),
         events |-> Append(w.events,
                           [fn |-> "close", args |-> << conn >>,
                            ret |-> None, raised |-> o])]

SqlMainInit ==
    /\ NoEngine
    /\ environ \in SqlEnvirons
    /\ agent = None
    /\ out = NoCall
    /\ at = "start"
    /\ local = << >>
    /\ world = NoWorld

\* lines 141-142: server and database from the environment
MainStart ==
    /\ at = "start"
    /\ local' = [server |-> Val(GetEnv(environ, "SQL_SERVER", Some("localhost"))),
                 database |-> Val(GetEnv(environ, "SQL_DATABASE", Some("master"))),
                 conn |-> None, test_result |-> None]
    /\ at' = "example1"
    /\ UNCHANGED << engine, environ, agent, out, world >>

\* where main goes after a connect function ended as r: to the test (or the
\* close) when `if conn` holds, on to the next example otherwise
AfterConnect(r, connected, failed) ==
    IF ~IsNone(r.raised) THEN "raised"
    ELSE IF ~IsNone(r.ret) THEN connected ELSE failed

\* lines 150-151: conn = connect_windows_auth(server, database); if conn
Example1(o) ==
    /\ at = "example1"
    /\ LET r == connect_windows_auth(local.server, local.database, o)
       IN  /\ out' = Called("connect_windows_auth",
                            << local.server, local.database >>, o, r)
           /\ local' = [local EXCEPT !.conn = r.ret]
           /\ world' = Opened(world, r, o)
           /\ at' = AfterConnect(r, "test1", "example2")
    /\ UNCHANGED << engine, environ, agent >>

\* MainTest closing the connection only after a successful test
MainTestCloseOnSuccess(b) ==
    /\ at \in {"test1", "test2"}
    /\ LET r == test_connection(Val(local.conn), b)
       IN  /\ out' = Called("test_connection", << Val(local.conn) >>, b, r)
           /\ local' = [local EXCEPT !.test_result = r.ret]
           /\ at' = IF ~IsNone(r.raised) THEN "raised"
                    ELSE IF Val(r.ret).success
                    THEN (IF at = "test1" THEN "close1" ELSE "close2")
                    ELSE (IF at = "test1" THEN "example2" ELSE "env")
    /\ UNCHANGED << engine, environ, agent, world >>

\* lines 153-156 and 173-176: test_result = test_connection(conn); the
\* result is printed when it reports success; the close follows either way
MainTest(b) ==
    /\ at \in {"test1", "test2"}
    /\ LET r == test_connection(Val(local.conn), b)
       IN  /\ out' = Called("test_connection", << Val(local.conn) >>, b, r)
           /\ local' = [local EXCEPT !.test_result = r.ret]
           /\ at' = IF ~IsNone(r.raised) THEN "raised"
                    ELSE IF at = "test1" THEN "close1" ELSE "close2"
    /\ UNCHANGED << engine, environ, agent, world >>

\* lines 157, 177 and 190: conn.close(), outside any try: an exception it
\* raises ends main
MainClose(o) ==
    /\ at \in {"close1", "close2", "close3"}
    /\ world' = Closed(world, Val(local.conn), o)
    /\ at' = IF ~IsNone(o) THEN "raised"
             ELSE IF at = "close1" THEN "example2"
             ELSE IF at = "close2" THEN "env" ELSE "done"
    /\ UNCHANGED << engine, environ, agent, out, local >>

\* lines 166-183: with both credentials in the environment,
\* conn = connect_sql_auth(server, database, username, password); if conn;
\* without them the example is skipped
Example2(o) ==
    /\ at = "example2"
    /\ LET username == GetEnv(environ, "SQL_USERNAME", None)
           password == GetEnv(environ, "SQL_PASSWORD", None)
       IN  IF StrTruthy(username) /\ StrTruthy(password)
           THEN LET r == connect_sql_auth(local.server, local.database,
                                          Val(username), Val(password), o)
                IN  /\ out' = Called("connect_sql_auth",
                                     << local.server, local.database,
                                        Val(username), Val(password) >>, o, r)
                    /\ local' = [local EXCEPT !.conn = r.ret]
                    /\ world' = Opened(world, r, o)
                    /\ at' = AfterConnect(r, "test2", "env")
           ELSE /\ at' = "env"
                /\ UNCHANGED << out, local, world >>
    /\ UNCHANGED << engine, environ, agent >>

\* lines 187-188: conn = get_connection_from_env(); if conn
EnvExample(o) ==
    /\ at = "env"
    /\ LET r == get_connection_from_env(environ, o)
       IN  /\ out' = Called("get_connection_from_env", << >>, o, r)
           /\ local' = [local EXCEPT !.conn = r.ret]
           /\ world' = Opened(world, r, o)
           /\ at' = AfterConnect(r, "close3", "done")
    /\ UNCHANGED << engine, environ, agent >>

SqlMainNext ==
    \/ MainStart
    \/ \E o \in DriverOutcomes : Example1(o)
    \/ \E b \in ConnectionBehaviours : MainTest(b)
    \/ \E o \in DriverOutcomes : MainClose(o)
    \/ \E o \in DriverOutcomes : Example2(o)
    \/ \E o \in DriverOutcomes : EnvExample(o)

SqlMainSpec == SqlMainInit /\ [][SqlMainNext]_vars

(* ------------------- azure-entra-agent/entra_agent.py ----------------- *)

\* EntraUserLookupAgent.__init__ raising only when no credential at all is set
new_agent_any(env) ==
    LET client_id == GetEnv(env, "AZURE_CLIENT_ID", None)
        client_secret == GetEnv(env, "AZURE_CLIENT_SECRET", None)
        tenant_id == GetEnv(env, "AZURE_TENANT_ID", None)
        user_agent == GetEnv(env, "USER_AGENT_NAME", Some("EntraUserLookupAgent"))
        credential == [tenant_id |-> tenant_id, client_id |-> client_id,
                       client_secret |-> client_secret]
        graph_client == [credentials |-> credential,
                         scopes |-> << "https://graph.microsoft.com/.default" >>]
    IN  IF ~(StrTruthy(client_id) \/ StrTruthy(client_secret) \/ StrTruthy(tenant_id))
        THEN Raised(Exc("ValueError", None, "Missing required Azure credentials"),
                    << >>)
        ELSE Returned(Some([client_id |-> client_id,
                            client_secret |-> client_secret,
                            tenant_id |-> tenant_id,
                            user_agent |-> user_agent,
                            credential |-> credential,
                            graph_client |-> graph_client]),
                      << CallTo("ClientSecretCredential",
                                << tenant_id, client_id, client_secret >>),
                         CallTo("GraphServiceClient", << credential >>) >>)

\* EntraUserLookupAgent.__init__, lines 32-58: read the four variables; raise
\* ValueError unless the three credentials are all non-empty; then create
\* the credential and the Graph client
new_agent(env) ==
    LET client_id == GetEnv(env, "AZURE_CLIENT_ID", None)
        client_secret == GetEnv(env, "AZURE_CLIENT_SECRET", None)
        tenant_id == GetEnv(env, "AZURE_TENANT_ID", None)
        user_agent == GetEnv(env, "USER_AGENT_NAME", Some("EntraUserLookupAgent"))
        credential == [tenant_id |-> tenant_id, client_id |-> client_id,
                       client_secret |-> client_secret]
        graph_client == [credentials |-> credential,
                         scopes |-> << "https://graph.microsoft.com/.default" >>]
    IN  IF ~(StrTruthy(client_id) /\ StrTruthy(client_secret) /\ StrTruthy(tenant_id))
        THEN Raised(Exc("ValueError", None, "Missing required Azure credentials"),
                    << >>)
        ELSE Returned(Some([client_id |-> client_id,
                            client_secret |-> client_secret,
                            tenant_id |-> tenant_id,
                            user_agent |-> user_agent,
                            credential |-> credential,
                            graph_client |-> graph_client]),
                      << CallTo("ClientSecretCredential",
                                << tenant_id, client_id, client_secret >>),
                         CallTo("GraphServiceClient", << credential >>) >>)

\* the attributes of a Graph user that get_user_by_id reads
UserAttributes ==
    {"id", "display_name", "mail", "user_principal_name", "given_name",
     "surname", "job_title", "department", "office_location", "mobile_phone",
     "business_phones"}

\* the users the Graph client returns: three attributes are None or present
\* (an empty job title and an empty list of phones are present values), the
\* others are present
Users ==
    { [a \in UserAttributes |->
          IF a = "mail" THEN mail
          ELSE IF a = "job_title" THEN job_title
          ELSE IF a = "business_phones" THEN business_phones
          ELSE IF a = "mobile_phone" THEN None
          ELSE Some(a)] :
        mail \in {None, Some("ada@example.com")},
        job_title \in {None, Some("")},
        business_phones \in {None, Some(<< >>)} }

\* what graph_client.users.by_user_id(user_id).get() does: returns a user or
\* None, or raises an ODataError (without error, or with a code) or another
\* exception
GraphAnswers ==
    { [raised |-> None, user |-> u] : u \in {None} \cup {Some(v) : v \in Users} }
    \cup
    { [raised |-> Some(e), user |-> None] :
        e \in { Exc("ODataError",
                    Some([code |-> Some("Request_ResourceNotFound"),
                          message |-> "Resource does not exist"]),
                    "ODataError"),
                Exc("ODataError",
                    Some([code |-> Some("Authorization_RequestDenied"),
                          message |-> "Insufficient privileges"]),
                    "ODataError"),
                Exc("ODataError", Some([code |-> None, message |-> "error"]),
                    "ODataError"),
                Exc("ODataError", None, "ODataError"),
                Exc("Exception", None, "Connection reset") } }

\* lines 141-153: the dictionary built from the user, key by key
UserData(user) ==
    [ id |-> user["id"],
      display_name |-> user["display_name"],
      email |-> user["mail"],
      user_principal_name |-> user["user_principal_name"],
      first_name |-> user["given_name"],
      last_name |-> user["surname"],
      job_title |-> user["job_title"],
      department |-> user["department"],
      office_location |-> user["office_location"],
      mobile_phone |-> user["mobile_phone"],
      business_phones |-> user["business_phones"] ]

\* line 155: {k: v for k, v in user_data.items() if v is not None}
WithoutNone(d) == [k \in {key \in DOMAIN d : ~IsNone(d[key])} |-> d[k]]

\* get_user_by_id returning the dictionary as built, None values included
get_user_by_id_keeping_none(user_id, g) ==
    IF ~StrTruthy(user_id)
    THEN Raised(Exc("ValueError", None, "User ID cannot be empty"), << >>)
    ELSE LET calls == << CallTo("users.by_user_id.get", << Val(user_id) >>) >>
         IN  IF IsNone(g.raised)
             THEN IF ~IsNone(g.user)
                  THEN Returned(Some(UserData(Val(g.user))), calls)
                  ELSE Returned(None, calls)
             ELSE LET e == Val(g.raised)
                  IN  IF IsInstance(e, "ODataError")
                      THEN IF /\ ~IsNone(e.error)
                              /\ Val(e.error).code = Some("Request_ResourceNotFound")
                           THEN Returned(None, calls)
                           ELSE Raised(e, calls)
                      ELSE Raised(e, calls)

\* get_user_by_id, lines 121-166: ValueError for a falsy id before the try;
\* the Graph call; the user's dictionary without None values, or None;
\* an ODataError with code Request_ResourceNotFound returns None, every
\* other exception is raised again
get_user_by_id(user_id, g) ==
    IF ~StrTruthy(user_id)
    THEN Raised(Exc("ValueError", None, "User ID cannot be empty"), << >>)
    ELSE LET calls == << CallTo("users.by_user_id.get", << Val(user_id) >>) >>
         IN  IF IsNone(g.raised)
             THEN IF ~IsNone(g.user)
                  THEN Returned(Some(WithoutNone(UserData(Val(g.user)))), calls)
                  ELSE Returned(None, calls)
             ELSE LET e == Val(g.raised)
                  IN  IF IsInstance(e, "ODataError")
                      THEN IF /\ ~IsNone(e.error)
                              /\ Val(e.error).code = Some("Request_ResourceNotFound")
                           THEN Returned(None, calls)
                           ELSE Raised(e, calls)
                      ELSE Raised(e, calls)

\* the user ids get_user_by_id is called with
UserIds == {None, Some(""), Some("user-1")}

\* the environments of entra_agent.py: each of the three credentials unset,
\* empty or set, the agent name unset or set
EntraEnvirons ==
    { Environ(c) :
        c \in { f \in [ {"AZURE_CLIENT_ID", "AZURE_CLIENT_SECRET",
                         "AZURE_TENANT_ID", "USER_AGENT_NAME"}
                         -> {"unset", "empty", "set"} ] :
                  f["USER_AGENT_NAME"] # "empty" } }

EntraInit ==
    /\ NoEngine
    /\ environ \in EntraEnvirons
    /\ agent = None
    /\ out = NoCall
    /\ at = "none"
    /\ local = << >>
    /\ world = NoWorld

\* agent = EntraUserLookupAgent(): the name is bound only when __init__ returns
NewAgent ==
    /\ LET r == new_agent(environ)
       IN  /\ out' = Called("EntraUserLookupAgent", << >>, None, r)
           /\ agent' = IF IsNone(r.raised) THEN r.ret ELSE agent
    /\ UNCHANGED << engine, environ, running >>

\* await agent.get_user_by_id(user_id) on a constructed agent
GetUserById(user_id, g) ==
    /\ ~IsNone(agent)
    /\ out' = Called("get_user_by_id", << user_id >>, g,
                     get_user_by_id(user_id, g))
    /\ UNCHANGED << engine, environ, agent, running >>

EntraNext ==
    \/ NewAgent
    \/ \E user_id \in UserIds, g \in GraphAnswers : GetUserById(user_id, g)

EntraSpec == EntraInit /\ [][EntraNext]_vars

(* --------------- azure-entra-agent/entra_agent.py: main --------------- *)
(* A line typed at a prompt is a sequence of characters and words: a      *)
(* whitespace character, or a word without whitespace taken as a whole.  *)

Whitespace == {" ", "\t"}

RECURSIVE LStrip(_)
LStrip(line) ==
    IF line # << >> /\ Head(line) \in Whitespace THEN LStrip(Tail(line)) ELSE line

RECURSIVE RStrip(_)
RStrip(line) ==
    IF line # << >> /\ line[Len(line)] \in Whitespace
    THEN RStrip(SubSeq(line, 1, Len(line) - 1)) ELSE line

\* str.strip(): the line without the whitespace at its two ends
Strip(line) == RStrip(LStrip(line))

\* the Python string of a stripped line of one word at most
Text(line) == IF line = << >> THEN "" ELSE line[1]

\* the lines typed at the prompts
InputLines ==
    { << >>, << " " >>, << "1" >>, << " ", "1", "\t" >>, << "2" >>, << "3" >>,
      << "4" >>, << "4", " " >>, << "5" >>, << "exit" >>, << " ", "ada" >> }

\* what input() does: returns the line typed, or raises EOFError when the
\* standard input is closed
StdinAnswers ==
    { [raised |-> None, line |-> l] : l \in InputLines }
    \cup { [raised |-> Some(Exc("EOFError", None, "EOF when reading a line")),
            line |-> << >>] }

\* what graph_client.users.get(...) does: returns None, a response without
\* value, or a response with a list of users, or raises
SearchAnswers ==
    { [raised |-> None, response |-> p] :
        p \in {None, Some([value |-> None]), Some([value |-> Some(<< >>)])}
              \cup { Some([value |-> Some(<< u >>)]) : u \in Users }
              \cup { Some([value |-> Some(<< u, u >>)]) : u \in Users } }
    \cup
    { [raised |-> Some(e), response |-> None] :
        e \in { Exc("ODataError",
                    Some([code |-> Some("Authorization_RequestDenied"),
                          message |-> "Insufficient privileges"]),
                    "ODataError"),
                Exc("ODataError", None, "ODataError"),
                Exc("Exception", None, "Connection reset") } }

\* the request search_users_by_name and search_groups_by_name build, lines
\* 78-86 and 185-193
SearchRequest(name) ==
    [search |-> << "\"displayName:", name, "\" OR \"mail:", name, "\"" >>,
     orderby |-> << "displayName" >>, top |-> 50,
     headers |-> [ConsistencyLevel |-> "eventual"]]

\* search_users_by_name, lines 60-119: ValueError for an empty or blank name
\* before the try; the Graph call; the list of the users' dictionaries
\* without None values; every exception is raised again
search_users_by_name(name, g) ==
    IF IsNone(name) \/ Val(name) = << >> \/ Strip(Val(name)) = << >>
    THEN Raised(Exc("ValueError", None, "Search name cannot be empty"), << >>)
    ELSE LET calls == << CallTo("users.get", << SearchRequest(Val(name)) >>) >>
         IN  IF ~IsNone(g.raised) THEN Raised(Val(g.raised), calls)
             ELSE IF /\ ~IsNone(g.response)
                     /\ ~IsNone(Val(g.response).value)
                     /\ Val(Val(g.response).value) # << >>
             THEN LET value == Val(Val(g.response).value)
                  IN  Returned(Some([i \in 1..Len(value) |->
                                        WithoutNone(UserData(value[i]))]), calls)
             ELSE Returned(Some(<< >>), calls)

\* the attributes of a Graph group that search_groups_by_name reads
GroupAttributes ==
    {"id", "display_name", "description", "mail", "group_types",
     "security_enabled", "mail_enabled", "visibility"}

\* the groups the Graph client returns: description and types are None or
\* present, the flags are booleans
Groups ==
    { [a \in GroupAttributes |->
          IF a = "description" THEN description
          ELSE IF a = "group_types" THEN group_types
          ELSE IF a = "security_enabled" THEN Some(security_enabled)
          ELSE IF a = "mail_enabled" THEN Some(FALSE)
          ELSE IF a = "mail" THEN None
          ELSE Some(a)] :
        description \in {None, Some("")},
        group_types \in {None, Some(<< >>), Some(<< "Unified" >>)},
        security_enabled \in BOOLEAN }

\* what graph_client.groups.get(...) does
GroupSearchAnswers ==
    { [raised |-> None, response |-> p] :
        p \in {None, Some([value |-> None]), Some([value |-> Some(<< >>)])}
              \cup { Some([value |-> Some(<< u >>)]) : u \in Groups } }
    \cup
    { [raised |-> Some(e), response |-> None] :
        e \in { Exc("ODataError", None, "ODataError"),
                Exc("Exception", None, "Connection reset") } }

\* lines 202-211: the dictionary built from the group, key by key
GroupData(group) ==
    [ id |-> group["id"],
      display_name |-> group["display_name"],
      description |-> group["description"],
      email |-> group["mail"],
      group_types |-> group["group_types"],
      security_enabled |-> group["security_enabled"],
      mail_enabled |-> group["mail_enabled"],
      visibility |-> group["visibility"] ]

\* search_groups_by_name, lines 168-223
search_groups_by_name(name, g) ==
    IF IsNone(name) \/ Val(name) = << >> \/ Strip(Val(name)) = << >>
    THEN Raised(Exc("ValueError", None, "Search name cannot be empty"), << >>)
    ELSE LET calls == << CallTo("groups.get", << SearchRequest(Val(name)) >>) >>
         IN  IF ~IsNone(g.raised) THEN Raised(Val(g.raised), calls)
             ELSE IF /\ ~IsNone(g.response)
                     /\ ~IsNone(Val(g.response).value)
                     /\ Val(Val(g.response).value) # << >>
             THEN LET value == Val(Val(g.response).value)
                  IN  Returned(Some([i \in 1..Len(value) |->
                                        WithoutNone(GroupData(value[i]))]), calls)
             ELSE Returned(Some(<< >>), calls)

\* the calls the Graph client can receive
GraphCalls == {"users.get", "groups.get", "users.by_user_id.get"}

\* print(...): the session's log gets the line
Printed(text) == CallTo("print", << text >>)

\* lines 239-243: the menu is shown
Menu == << Printed("Please select an option:") >>

\* lines 323-326: the exception that leaves the try ends main; what is
\* printed depends on its class
Caught(e) ==
    IF IsInstance(e, "ValueError") THEN << Printed("Configuration error") >>
    ELSE << Printed("Error") >>

EntraMainInit ==
    /\ NoEngine
    /\ environ \in EntraEnvirons
    /\ agent = None
    /\ out = NoCall
    /\ at = "start"
    /\ local = << >>
    /\ world = NoWorld

\* lines 230-243: the agent is created, the header and the menu are printed;
\* a ValueError of the constructor ends main
EntraMainStart ==
    /\ at = "start"
    /\ LET r == new_agent(environ)
       IN  /\ out' = Called("EntraUserLookupAgent", << >>, None, r)
           /\ agent' = r.ret
           /\ local' = [choice |-> << >>, term |-> << >>, raised |-> r.raised]
           /\ world' = [world EXCEPT !.events =
                           IF IsNone(r.raised) THEN Menu ELSE Caught(Val(r.raised))]
           /\ at' = IF IsNone(r.raised) THEN "menu" ELSE "ended"
    /\ UNCHANGED << engine, environ >>

\* main after input() raised: the exception is caught at line 325
InputRaised(a) ==
    /\ local' = [local EXCEPT !.raised = a.raised]
    /\ world' = [world EXCEPT !.events = @ \o Caught(Val(a.raised))]
    /\ at' = "ended"

\* lines 245-247, 269, 296, 311-317: choice = input(...).strip(); 1, 2 and 3
\* go on to ask for a term, 4 leaves the loop, anything else prints the error
\* and the loop shows the menu again.  The log starts again at each choice.
EnterChoice(a) ==
    /\ at = "menu"
    /\ IF ~IsNone(a.raised)
       THEN /\ local' = [choice |-> << >>, term |-> << >>, raised |-> a.raised]
            /\ world' = [world EXCEPT !.events = Caught(Val(a.raised))]
            /\ at' = "ended"
       ELSE LET choice == Strip(a.line)
            IN  /\ local' = [choice |-> choice, term |-> << >>, raised |-> None]
                /\ IF choice \in {<< "1" >>, << "2" >>, << "3" >>}
                   THEN /\ world' = [world EXCEPT !.events = << >>]
                        /\ at' = "term"
                   ELSE IF choice = << "4" >>
                   THEN /\ world' = [world EXCEPT !.events = << Printed("Exiting...") >>]
                        /\ at' = "ended"
                   ELSE /\ world' = [world EXCEPT !.events =
                                        << Printed("Invalid choice. Please enter 1, 2, 3, or 4.") >>
                                        \o Menu]
                        /\ at' = "menu"
    /\ UNCHANGED << engine, environ, agent, out >>

\* lines 249-252, 271-274, 298-301: the term or id is read and stripped; an
\* empty one skips the call
EnterTerm(a) ==
    /\ at = "term"
    /\ IF ~IsNone(a.raised) THEN InputRaised(a)
       ELSE LET term == Strip(a.line)
            IN  /\ local' = [local EXCEPT !.term = term]
                /\ IF term # << >>
                   THEN /\ world' = [world EXCEPT !.events =
                                        Append(@, Printed("Searching"))]
                        /\ at' = "call"
                   ELSE /\ world' = world
                        /\ at' = "continue"
    /\ UNCHANGED << engine, environ, agent, out >>

\* main after a method of the agent ended as r, an exception caught inside
\* the loop
AfterCallResuming(r) ==
    /\ local' = [local EXCEPT !.raised = r.raised]
    /\ world' = [world EXCEPT !.events =
                    @ \o r.calls \o
                    (IF ~IsNone(r.raised) THEN Caught(Val(r.raised))
                     ELSE << Printed("results") >>)]
    /\ at' = "continue"

\* main after a method of the agent ended as r: its Graph calls are in the
\* log; an exception is caught at lines 323-326 and ends main, a result is
\* printed
AfterCall(r) ==
    /\ local' = [local EXCEPT !.raised = r.raised]
    /\ world' = [world EXCEPT !.events =
                    @ \o r.calls \o
                    (IF ~IsNone(r.raised) THEN Caught(Val(r.raised))
                     ELSE << Printed("results") >>)]
    /\ at' = IF ~IsNone(r.raised) THEN "ended" ELSE "continue"

\* lines 253-267: users = await agent.search_users_by_name(search_name)
SearchUsers(g) ==
    /\ at = "call"
    /\ local.choice = << "1" >>
    /\ LET r == search_users_by_name(Some(local.term), g)
       IN  /\ out' = Called("search_users_by_name", << local.term >>, g, r)
           /\ AfterCall(r)
    /\ UNCHANGED << engine, environ, agent >>

\* lines 275-294: groups = await agent.search_groups_by_name(search_name)
SearchGroups(g) ==
    /\ at = "call"
    /\ local.choice = << "2" >>
    /\ LET r == search_groups_by_name(Some(local.term), g)
       IN  /\ out' = Called("search_groups_by_name", << local.term >>, g, r)
           /\ AfterCall(r)
    /\ UNCHANGED << engine, environ, agent >>

\* lines 302-309: user = await agent.get_user_by_id(user_id)
LookupUser(g) ==
    /\ at = "call"
    /\ local.choice = << "3" >>
    /\ LET r == get_user_by_id(Some(Text(local.term)), g)
       IN  /\ out' = Called("get_user_by_id", << Some(Text(local.term)) >>, g, r)
           /\ AfterCall(r)
    /\ UNCHANGED << engine, environ, agent >>

\* lines 320-321 and 238-243: input("Press Enter to continue..."), then the
\* menu is shown again
PressEnter(a) ==
    /\ at = "continue"
    /\ IF ~IsNone(a.raised) THEN InputRaised(a)
       ELSE /\ world' = [world EXCEPT !.events = @ \o Menu]
            /\ at' = "menu"
            /\ local' = local
    /\ UNCHANGED << engine, environ, agent, out >>

EntraMainNext ==
    \/ EntraMainStart
    \/ \E a \in StdinAnswers : EnterChoice(a)
    \/ \E a \in StdinAnswers : EnterTerm(a)
    \/ \E g \in SearchAnswers : SearchUsers(g)
    \/ \E g \in GroupSearchAnswers : SearchGroups(g)
    \/ \E g \in GraphAnswers : LookupUser(g)
    \/ \E a \in StdinAnswers : PressEnter(a)

EntraMainSpec == EntraMainInit /\ [][EntraMainNext]_vars

(* ----------------- azure-entra-agent/test_setup.py -------------------- *)
(* The value of a variable is a line as above; its words are chosen so    *)
(* that 'your-' or 'example' occurs in the lowercased value exactly when  *)
(* it is one of its lowercased words.                                     *)

\* str.lower() of a word
Lower(word) ==
    CASE word = "YOUR-" -> "your-"
      [] word = "Example" -> "example"
      [] word = "EXAMPLE" -> "example"
      [] OTHER -> word

\* value.lower()
LowerLine(line) == [i \in 1..Len(line) |-> Lower(line[i])]

\* `word in line`
In(word, line) == \E i \in 1..Len(line) : line[i] = word

\* line 14
required_vars == << "AZURE_CLIENT_ID", "AZURE_CLIENT_SECRET", "AZURE_TENANT_ID" >>

\* check_windows_env_variables comparing the value as it is written
check_windows_env_variables_case_sensitive(env) ==
    LET Missing(var) == IsNone(env[var]) \/ Val(env[var]) = << >>
        Placeholder(var) ==
            /\ ~Missing(var)
            /\ \/ In("your-", Val(env[var]))
               \/ In("example", Val(env[var]))
               \/ Strip(Val(env[var])) = << >>
        missing_vars == SelectSeq(required_vars, Missing)
        placeholder_vars == SelectSeq(required_vars, Placeholder)
    IN  IF missing_vars # << >>
        THEN Returned(Some(FALSE), << Printed("ERROR: Missing environment variables") >>)
        ELSE IF placeholder_vars # << >>
        THEN Returned(Some(FALSE), << Printed("ERROR: Placeholder values found") >>)
        ELSE Returned(Some(TRUE), << Printed("OK") >>)

\* check_windows_env_variables, lines 10-48: a variable unset or empty is
\* missing; one whose lowercased value contains 'your-' or 'example', or
\* whose value is blank, is a placeholder; False if any is missing, else
\* False if any is a placeholder, else True
check_windows_env_variables(env) ==
    LET Missing(var) == IsNone(env[var]) \/ Val(env[var]) = << >>
        Placeholder(var) ==
            /\ ~Missing(var)
            /\ \/ In("your-", LowerLine(Val(env[var])))
               \/ In("example", LowerLine(Val(env[var])))
               \/ Strip(Val(env[var])) = << >>
        missing_vars == SelectSeq(required_vars, Missing)
        placeholder_vars == SelectSeq(required_vars, Placeholder)
    IN  IF missing_vars # << >>
        THEN Returned(Some(FALSE), << Printed("ERROR: Missing environment variables") >>)
        ELSE IF placeholder_vars # << >>
        THEN Returned(Some(FALSE), << Printed("ERROR: Placeholder values found") >>)
        ELSE Returned(Some(TRUE), << Printed("OK") >>)

\* check_optional_vars, lines 50-67: prints and returns True
check_optional_vars(env) ==
    LET user_agent == env["USER_AGENT_NAME"]
    IN  Returned(Some(TRUE),
                 << IF IsNone(user_agent) \/ Val(user_agent) = << >>
                    THEN Printed("INFO: USER_AGENT_NAME not set")
                    ELSE Printed("OK: USER_AGENT_NAME is set") >>)

\* what an import statement does: succeeds, or raises ImportError, or raises
\* what the imported module raises while it is executed
ImportOutcomes ==
    { None,
      Some(Exc("ImportError", None, "No module named 'msgraph'")),
      Some(Exc("ValueError", None, "Missing required Azure credentials")),
      Some(Exc("AttributeError", None, "module has no attribute")) }

\* check_dependencies, lines 69-79: only ImportError is caught
check_dependencies(o) ==
    IF IsNone(o) THEN Returned(Some(TRUE), << Printed("OK") >>)
    ELSE IF IsInstance(Val(o), "ImportError")
    THEN Returned(Some(FALSE), << Printed("ERROR: Missing dependency") >>)
    ELSE Raised(Val(o), << >>)

\* check_agent_import, lines 81-99: ImportError, ValueError and every other
\* Exception are caught
check_agent_import(o) ==
    IF IsNone(o) THEN Returned(Some(TRUE), << Printed("OK") >>)
    ELSE IF IsInstance(Val(o), "ImportError")
    THEN Returned(Some(FALSE), << Printed("ERROR: Cannot import EntraUserLookupAgent") >>)
    ELSE IF IsInstance(Val(o), "ValueError")
    THEN Returned(Some(FALSE),
                  << IF Val(o).message = "Missing required Azure credentials"
                     THEN Printed("ERROR: Azure credentials not available")
                     ELSE Printed("ERROR") >>)
    ELSE IF IsInstance(Val(o), "Exception")
    THEN Returned(Some(FALSE), << Printed("ERROR: Error importing agent") >>)
    ELSE Raised(Val(o), << >>)

\* the values a required variable is set to
SetupValues ==
    { << >>, << " " >>, << "abc-123" >>, << " ", "abc-123" >>,
      << "your-", "client-id-here" >>, << "YOUR-", "ID" >>,
      << "my", "Example", "id" >> }

\* the environments of test_setup.py
SetupEnvirons ==
    { [n \in EnvNames |->
          IF n = "AZURE_CLIENT_ID" THEN id
          ELSE IF n = "AZURE_CLIENT_SECRET" THEN secret
          ELSE IF n = "AZURE_TENANT_ID" THEN tenant
          ELSE IF n = "USER_AGENT_NAME" THEN name
          ELSE None] :
        id \in {None} \cup {Some(v) : v \in SetupValues},
        secret \in {None, Some(<< "abc-123" >>), Some(<< "EXAMPLE" >>)},
        tenant \in {None, Some(<< "abc-123" >>), Some(<< " " >>)},
        name \in {None, Some(<< "custom-agent" >>)} }

SetupInit ==
    /\ NoEngine
    /\ environ \in SetupEnvirons
    /\ agent = None
    /\ out = NoCall
    /\ at = "start"
    /\ local = << >>
    /\ world = NoWorld

\* lines 103-114: the header, the list of checks, passed = 0, total = 4
SetupStart ==
    /\ at = "start"
    /\ local' = [passed |-> 0, total |-> 4, ret |-> None]
    /\ at' = "check1"
    /\ UNCHANGED << engine, environ, agent, out, world >>

\* lines 116-122, one turn of the loop: the check is called inside try;
\* passed is incremented when it returned a true value; an Exception it
\* raised is printed and the loop goes on
RunCheck(name, r, next) ==
    /\ out' = Called(name, << >>, None, r)
    /\ world' = [world EXCEPT !.events =
                    Append(@, [fn |-> name, args |-> << >>,
                               ret |-> r.ret, raised |-> r.raised])]
    /\ IF ~IsNone(r.raised) /\ ~IsInstance(Val(r.raised), "Exception")
       THEN /\ at' = "raised"
            /\ local' = local
       ELSE /\ local' = [local EXCEPT !.passed =
                           IF IsNone(r.raised) /\ r.ret = Some(TRUE) THEN @ + 1 ELSE @]
            /\ at' = next
    /\ UNCHANGED << engine, environ, agent >>

CheckWindowsEnvVariables ==
    /\ at = "check1"
    /\ RunCheck("check_windows_env_variables",
                check_windows_env_variables(environ), "check2")

CheckOptionalVars ==
    /\ at = "check2"
    /\ RunCheck("check_optional_vars", check_optional_vars(environ), "check3")

CheckDependencies(o) ==
    /\ at = "check3"
    /\ RunCheck("check_dependencies", check_dependencies(o), "check4")

CheckAgentImport(o) ==
    /\ at = "check4"
    /\ RunCheck("check_agent_import", check_agent_import(o), "results")

\* lines 124-144: 0 when passed == total, 1 otherwise
SetupFinish ==
    /\ at = "results"
    /\ local' = [local EXCEPT !.ret = Some(IF local.passed = local.total THEN 0 ELSE 1)]
    /\ at' = "done"
    /\ UNCHANGED << engine, environ, agent, out, world >>

SetupNext ==
    \/ SetupStart
    \/ CheckWindowsEnvVariables
    \/ CheckOptionalVars
    \/ \E o \in ImportOutcomes : CheckDependencies(o)
    \/ \E o \in ImportOutcomes : CheckAgentImport(o)
    \/ SetupFinish

SetupSpec == SetupInit /\ [][SetupNext]_vars

(* ------------------- openai-agentkit/openai-agentkit.py --------------- *)

\* lines 5-12: the classifier
my_agent ==
    [name |-> "My agent", model |-> "gpt-4o", store |-> TRUE,
     instructions |-> "classify the question to check if it is a mathematics question"]

\* lines 15-22: the agent named `agent` in the source
agent_Agent ==
    [name |-> "Agent", model |-> "gpt-4o", store |-> TRUE,
     instructions |-> "always add 1 to the answer"]

\* lines 51-54 and 69-72
run_config ==
    [trace_metadata |->
        [trace_source |-> "agent-builder",
         workflow_id |-> "wf_68e857d32ac881909d5b48cc9ffb62f409f5725b5984cec1"]]

\* the questions run_workflow is called with
Questions == {"What is 5 + 3?", "What's the weather like?"}

\* the items a run produces: each wraps the raw item of the model's response
RunItems ==
    { [type |-> "message_output_item",
       raw_item |-> [role |-> "assistant", type |-> "message", text |-> t]] :
         t \in {"8", "Shoo Shoo"} }
    \cup
    { [type |-> "reasoning_item",
       raw_item |-> [role |-> "assistant", type |-> "reasoning", text |-> ""]] }

\* item.to_input_item(): the raw item, as an input item
to_input_item(item) == item.raw_item

\* what Runner.run does: returns a result with the new items and the final
\* output, or raises
RunAnswers ==
    { [raised |-> None, new_items |-> items, final_output |-> f] :
        items \in { << >> } \cup { << i >> : i \in RunItems }
                  \cup { << i, k >> : i \in {j \in RunItems : j.type = "reasoning_item"},
                                      k \in {j \in RunItems : j.type # "reasoning_item"} },
        f \in {"8", "9", "Shoo Shoo"} }
    \cup
    { [raised |-> Some(e), new_items |-> << >>, final_output |-> ""] :
        e \in { Exc("Exception", None, "Max turns exceeded") } }

\* lines 35-45: the conversation starts with the user's message
UserMessage(text) ==
    [role |-> "user", content |-> << [type |-> "input_text", text |-> text] >>]

\* the record of a call of Runner.run and of its answer
RunnerRun(starting_agent, input, a) ==
    [fn |-> "Runner.run", args |-> << starting_agent, input, run_config >>,
     ret |-> IF IsNone(a.raised)
             THEN Some([new_items |-> a.new_items, final_output |-> a.final_output])
             ELSE None,
     raised |-> a.raised]

\* lines 57 and 75: conversation_history.extend([item.to_input_item() ...])
Extended(conversation_history, new_items) ==
    conversation_history \o [i \in 1..Len(new_items) |-> to_input_item(new_items[i])]

WorkflowInit ==
    /\ NoEngine
    /\ environ = NoEnviron
    /\ agent = None
    /\ out = NoCall
    /\ at = "start"
    /\ local = << >>
    /\ world = NoWorld

\* lines 30-45: run_workflow is called; state, workflow, conversation_history
WorkflowStart(text) ==
    /\ at = "start"
    /\ local' = [workflow |-> [input_as_text |-> text],
                 conversation_history |-> << UserMessage(text) >>,
                 my_agent_result |-> None, agent_result |-> None]
    /\ out' = Called("run_workflow", << [input_as_text |-> text] >>, None,
                     Returned(None, << >>))
    /\ at' = "my_agent"
    /\ UNCHANGED << engine, environ, agent, world >>

\* RunMyAgent leaving the conversation as it was
RunMyAgentKeepingHistory(a) ==
    /\ at = "my_agent"
    /\ world' = [world EXCEPT !.events =
                    Append(@, RunnerRun(my_agent, local.conversation_history, a))]
    /\ IF ~IsNone(a.raised)
       THEN /\ at' = "raised"
            /\ out' = [out EXCEPT !.raised = a.raised]
            /\ local' = local
       ELSE /\ local' = [local EXCEPT
                           !.my_agent_result = Some([output_text |-> a.final_output])]
            /\ out' = out
            /\ at' = "agent"
    /\ UNCHANGED << engine, environ, agent >>

\* lines 46-62: the classifier runs on a copy of the conversation; an
\* exception of the run ends run_workflow; else the new items are added to
\* the conversation and the output is printed
RunMyAgent(a) ==
    /\ at = "my_agent"
    /\ world' = [world EXCEPT !.events =
                    Append(@, RunnerRun(my_agent, local.conversation_history, a))]
    /\ IF ~IsNone(a.raised)
       THEN /\ at' = "raised"
            /\ out' = [out EXCEPT !.raised = a.raised]
            /\ local' = local
       ELSE /\ local' = [local EXCEPT
                           !.conversation_history = Extended(@, a.new_items),
                           !.my_agent_result = Some([output_text |-> a.final_output])]
            /\ out' = out
            /\ at' = "agent"
    /\ UNCHANGED << engine, environ, agent >>

\* lines 64-82: the second agent runs on a copy of the conversation; its
\* new items are added, its output is printed and returned
RunAgent(a) ==
    /\ at = "agent"
    /\ world' = [world EXCEPT !.events =
                    Append(@, RunnerRun(agent_Agent, local.conversation_history, a))]
    /\ IF ~IsNone(a.raised)
       THEN /\ at' = "raised"
            /\ out' = [out EXCEPT !.raised = a.raised]
            /\ local' = local
       ELSE /\ local' = [local EXCEPT
                           !.conversation_history = Extended(@, a.new_items),
                           !.agent_result = Some([output_text |-> a.final_output])]
            /\ out' = [out EXCEPT !.ret = Some([output_text |-> a.final_output])]
            /\ at' = "done"
    /\ UNCHANGED << engine, environ, agent >>

WorkflowNext ==
    \/ \E text \in Questions : WorkflowStart(text)
    \/ \E a \in RunAnswers : RunMyAgent(a)
    \/ \E a \in RunAnswers : RunAgent(a)

WorkflowSpec == WorkflowInit /\ [][WorkflowNext]_vars

(* ------------------------- vocabulary of the claims ------------------- *)

\* N of the fit in progress or last called (0 before any fit)
N == IF IsNone(X) THEN 0 ELSE Len(Val(X))

\* the configuration and PointSet the specification calls valid
ValidRun == 1 <= n_clusters /\ n_clusters <= N /\ max_iter >= 1

\* an assignment step of the current fit has run
Assigned ==
    \/ pc = "update"
    \/ pc = "assign" /\ it >= 1
    \/ last_fit = "returned" /\ max_iter >= 1

HasNaN(C) == \E j \in 1..Len(C) : \E k \in 1..Len(C[j]) : IsNaN(C[j][k])

PairwiseDistinct(f) ==
    \A p \in 1..Len(f) : \A q \in 1..Len(f) : p # q => f[p] # f[q]

\* the arithmetic mean of all points of the last fit (per coordinate, the sum
\* of the N coordinates over N), as a one-centroid array
MeanOfAll ==
    << [k \in 1..Dim(Val(X)) |-> Rat(SumCoord(Val(X), 1..N, k), N)] >>

(* ------------------------------- C1 ----------------------------------- *)

\* C1: in a valid run (1 <= K <= N, M >= 1), after every assignment step of
\* the loop and after fit returns, self.labels has exactly one entry per point
\* index 0..N-1 and every entry is a centroid index in [0, K).
C1_LabelsWellFormed ==
    (ValidRun /\ Assigned) =>
        /\ ~IsNone(labels)
        /\ DOMAIN Val(labels) = 1..N
        /\ \A p \in 1..N : Val(labels)[p] \in 0..(n_clusters - 1)

\* a fit of three points into two clusters returned after a second iteration
\* with both labels in use
C1_Witness ==
    /\ ValidRun
    /\ last_fit = "returned"
    /\ n_clusters = 2
    /\ N = 3
    /\ it >= 2
    /\ {Val(labels)[p] : p \in 1..N} = {0, 1}

(* ------------------------------- C2 ----------------------------------- *)

\* C2: after fit(X) returns in a valid run, predict(X) returns exactly
\* self.labels, whether the loop stopped by convergence or by exhausting the
\* budget of M iterations.  Stated for the runs in which no cluster was
\* emptied, so that its failure does not rest on the not-a-number centroids
\* of C4.
C2_PredictReproducesFit ==
    ( /\ ValidRun
      /\ last_fit = "returned"
      /\ ~HasNaN(Val(centroids))
      /\ call.op = "predict"
      /\ call.arg = X ) =>
        call.raised = "none" /\ call.ret = labels

(* ------------------------------- C3 ----------------------------------- *)

\* C3: when K exceeds N, fit raises (numpy's ValueError stands for the
\* specification's InvalidConfiguration) before any iteration, and centroids
\* and labels are what they were on entry: None on a fresh engine, the values
\* of the previous fit on a re-fit.
C3_TooManyClustersRaises ==
    (nfits > 0 /\ n_clusters > N) =>
        /\ pc = "idle"
        /\ last_fit = "raised"
        /\ call.op = "fit" => call.raised = "ValueError"
        /\ it = 0
        /\ centroids = pre.centroids
        /\ labels = pre.labels

\* a re-fit with fewer points than clusters raised on an engine that holds
\* the result of an earlier fit
C3_Witness ==
    /\ n_clusters > N
    /\ call.op = "fit"
    /\ call.raised = "ValueError"
    /\ pre.last_fit = "returned"
    /\ ~IsNone(centroids)
    /\ ~IsNone(labels)

(* ------------------------------- C4 ----------------------------------- *)

\* C4: an update step that finds a centroid index without points makes fit
\* raise; no centroid computed from an empty set is ever stored.
C4_DegenerateClusterRaises ==
    ~IsNone(centroids) => ~HasNaN(Val(centroids))

(* ------------------------------- C5 ----------------------------------- *)

\* C5: predict raises and returns nothing on an engine on which fit was never
\* called, and returns a LabelAssignment (one label per point) on an engine
\* whose fit has completed.
C5_PredictNeedsFit ==
    call.op = "predict" =>
        /\ nfits = 0 => (call.raised # "none" /\ IsNone(call.ret))
        /\ last_fit = "returned" =>
              /\ call.raised = "none"
              /\ ~IsNone(call.ret)
              /\ Len(Val(call.ret)) = Len(Val(call.arg))

(* ------------------------------- C6 ----------------------------------- *)

\* C6: within one fit, the within-cluster sum of squared distances of an
\* iteration is at most that of the iteration before.
C6_InertiaNonIncreasing ==
    \A i \in 1..(Len(wcss) - 1) : RatLeq(wcss[i + 1], wcss[i])

(* ------------------------------- C7 ----------------------------------- *)

\* C7 as stated: with K = 1, fit ends with the single centroid equal to the
\* mean of all points, and the loop body has run exactly once.
C7_SingleClusterOneIteration ==
    (n_clusters = 1 /\ max_iter >= 1 /\ last_fit = "returned") =>
        /\ Val(centroids) = MeanOfAll
        /\ it = 1

\* C7 as amended: with K = 1, fit ends with the single centroid equal to the
\* mean of all points up to the tolerance of the convergence check; the loop
\* body runs once when M = 1 or the point chosen initially is already close
\* to the mean, and twice otherwise.
C7_SingleClusterMean ==
    (n_clusters = 1 /\ max_iter >= 1 /\ last_fit = "returned") =>
        /\ Len(Val(centroids)) = 1
        /\ AllClose(Val(centroids), MeanOfAll)
        /\ it = IF max_iter = 1
                   \/ AllClose(Take(Val(X), initial_indices), MeanOfAll)
                THEN 1 ELSE 2
        /\ it = 2 => Val(centroids) = MeanOfAll

\* a one-cluster fit of three points returned after its second iteration
C7_Witness ==
    /\ n_clusters = 1
    /\ last_fit = "returned"
    /\ N = 3
    /\ it = 2
    /\ Val(centroids) = MeanOfAll
    /\ Take(Val(X), initial_indices) # MeanOfAll

(* ------------------------------- C8 ----------------------------------- *)

\* C8 as stated: with K = N, for every PointSet, duplicates included, the N
\* labels are pairwise distinct and the loop stops within one iteration.
C8_OwnCentroidAlways ==
    (n_clusters = N /\ N >= 1 /\ max_iter >= 1 /\ last_fit = "returned") =>
        /\ PairwiseDistinct(Val(labels))
        /\ it <= 1

\* C8 as amended: with K = N and pairwise distinct points, every point is
\* assigned to the centroid that was copied from it, the N labels are pairwise
\* distinct, and the loop stops in its first iteration with the centroids
\* still the initial ones.
C8_OwnCentroidDistinctPoints ==
    ( /\ n_clusters = N
      /\ N >= 1
      /\ max_iter >= 1
      /\ last_fit = "returned"
      /\ PairwiseDistinct(Val(X)) ) =>
        /\ PairwiseDistinct(Val(labels))
        /\ \A p \in 1..N : initial_indices[Val(labels)[p] + 1] = p - 1
        /\ it = 1
        /\ Val(centroids) = Take(Val(X), initial_indices)

\* a fit of three distinct points into three clusters returned
C8_Witness ==
    /\ n_clusters = 3
    /\ N = 3
    /\ last_fit = "returned"
    /\ PairwiseDistinct(Val(X))
    /\ it = 1
    /\ {Val(labels)[p] : p \in 1..N} = {0, 1, 2}

(* ------------------------------- C9 ----------------------------------- *)

\* C9: with K <= 0 or M <= 0, fit raises before any iteration and before any
\* centroid is selected or stored.
C9_InvalidConfigurationRaises ==
    (nfits > 0 /\ (n_clusters <= 0 \/ max_iter <= 0)) =>
        /\ pc = "idle"
        /\ last_fit = "raised"
        /\ it = 0
        /\ centroids = pre.centroids
        /\ labels = pre.labels

(* ------------------------------- C10 ---------------------------------- *)

\* C10: for every configured seed, 0 included, two fits of the same engine on
\* the same PointSet choose the same initial indices and end with the same
\* centroids and labels, whatever the global random source held before each.
C10_SeededRunsAgree ==
    ( /\ ~IsNone(random_state)
      /\ last_fit = "returned"
      /\ pre.last_fit = "returned"
      /\ pre.X = X ) =>
        /\ initial_indices = pre.initial_indices
        /\ centroids = pre.centroids
        /\ labels = pre.labels

(* ------------------------------- C11 ---------------------------------- *)

\* the number of different values among the entries of a sequence
NDistinct(f) == Cardinality({f[p] : p \in 1..Len(f)})

\* C11: after fit returns in a valid run on a PointSet that holds at least K
\* pairwise distinct points, predict on the training points yields exactly K
\* distinct labels: no centroid index is left without a point.
C11_NoEmptyCluster ==
    ( /\ ValidRun
      /\ last_fit = "returned"
      /\ NDistinct(Val(X)) >= n_clusters
      /\ call.op = "predict"
      /\ call.arg = X
      /\ call.raised = "none" ) =>
        NDistinct(Val(call.ret)) = n_clusters

(* ------------------------------- C12 ---------------------------------- *)

\* C12: from the moment fit stores the initial centroids until the engine is
\* re-fit, self.centroids holds exactly K vectors, each of the dimension D of
\* the points, and a predict that returns gives one label per point passed.
C12_CentroidShape ==
    /\ ~IsNone(centroids) =>
          /\ Len(Val(centroids)) = n_clusters
          /\ \A j \in 1..Len(Val(centroids)) :
                Len(Val(centroids)[j]) = Dim(Val(X))
    /\ (call.op = "predict" /\ call.raised = "none") =>
          Len(Val(call.ret)) = Len(Val(call.arg))

\* predict on the three training points after a fit into two clusters in two
\* dimensions whose centroids were replaced by means
C12_Witness ==
    /\ last_fit = "returned"
    /\ n_clusters = 2
    /\ Dim(Val(X)) = 2
    /\ N = 3
    /\ it >= 2
    /\ Val(centroids) # Take(Val(X), initial_indices)
    /\ call.op = "predict"
    /\ call.arg = X
    /\ call.raised = "none"

(* ------------------------------- C13 ---------------------------------- *)

\* C13: a predict call runs the assignment step against the centroids the
\* engine holds and changes neither self.centroids nor self.labels, so a
\* predict that follows a predict on the same points returns the same labels.
C13_PredictOnlyAssigns ==
    [][ call'.op = "predict" =>
          /\ centroids' = centroids
          /\ labels' = labels
          /\ call'.raised = "none" =>
                call'.ret = Some(AssignLabels(Val(call'.arg), Val(centroids)))
          /\ (call.op = "predict" /\ call.arg = call'.arg) =>
                (call'.ret = call.ret /\ call'.raised = call.raised)
      ]_vars

\* predict returned for a single point that is not a training point, on an
\* engine that still holds the three labels of its fit
C13_Witness ==
    /\ last_fit = "returned"
    /\ N = 3
    /\ it >= 2
    /\ ~IsNone(labels)
    /\ Len(Val(labels)) = 3
    /\ call.op = "predict"
    /\ call.raised = "none"
    /\ Len(Val(call.arg)) = 1
    /\ \A p \in 1..N : Val(X)[p] # Val(call.arg)[1]

(* ------------------------------- C14 ---------------------------------- *)

\* C14: no step of fit and no predict changes the PointSet it was passed:
\* from the entry of fit to its end, and through every predict on the
\* training points, every point keeps its coordinates, the points copied as
\* initial centroids included, while the centroids are replaced by means.
C14_PointSetUnchanged ==
    [][ /\ pc # "idle" => X' = X
        /\ call'.op = "predict" => X' = X
        /\ (call'.op = "predict" /\ call'.arg = X) => call'.arg = X'
      ]_vars

\* fit, a second fit on the same points and predict on them, with centroids
\* that are no longer the points they were copied from
C14_Witness ==
    /\ nfits = 2
    /\ pre.last_fit = "returned"
    /\ pre.X = X
    /\ last_fit = "returned"
    /\ it >= 2
    /\ Val(centroids) # Take(Val(X), initial_indices)
    /\ call.op = "predict"
    /\ call.arg = X
    /\ call.raised = "none"

(* ------------------------------- C15 ---------------------------------- *)

\* C15: connect_sql_auth and connect_windows_auth call pyodbc.connect exactly
\* once; they return the connection it produced when it succeeds, and return
\* None, propagating nothing, when it raises a driver error or any other
\* exception.
C15_ConnectNeverRaises ==
    out.op \in {"connect_sql_auth", "connect_windows_auth"} =>
        /\ Len(out.calls) = 1
        /\ out.calls[1].fn = "pyodbc.connect"
        /\ IsNone(out.raised)
        /\ IF IsNone(out.given)
           THEN out.ret = Some(Connection(out.calls[1].args[1]))
           ELSE IsNone(out.ret)

\* connect_sql_auth ended with None after the driver raised an exception that
\* is not a driver error
C15_Witness ==
    /\ out.op = "connect_sql_auth"
    /\ ~IsNone(out.given)
    /\ Val(out.given).type = "Exception"
    /\ Len(out.calls) = 1
    /\ IsNone(out.raised)
    /\ IsNone(out.ret)

(* ------------------------------- C16 ---------------------------------- *)

\* C16: get_connection_from_env calls connect_sql_auth(server, database,
\* username, password) exactly when SQL_USERNAME and SQL_PASSWORD are both set
\* to non-empty values and connect_windows_auth(server, database) otherwise,
\* with server and database localhost and master when unset, and ends as the
\* function it called ends.
C16_EnvChoosesAuthentication ==
    out.op = "get_connection_from_env" =>
        LET server == IF IsNone(environ["SQL_SERVER"]) THEN "localhost"
                      ELSE Val(environ["SQL_SERVER"])
            database == IF IsNone(environ["SQL_DATABASE"]) THEN "master"
                        ELSE Val(environ["SQL_DATABASE"])
            username == environ["SQL_USERNAME"]
            password == environ["SQL_PASSWORD"]
            both == /\ ~IsNone(username) /\ Val(username) # ""
                    /\ ~IsNone(password) /\ Val(password) # ""
            chosen == IF both
                      THEN connect_sql_auth(server, database, Val(username),
                                            Val(password), out.given)
                      ELSE connect_windows_auth(server, database, out.given)
        IN  /\ out.calls[1] =
                  IF both
                  THEN CallTo("connect_sql_auth",
                              << server, database, Val(username), Val(password) >>)
                  ELSE CallTo("connect_windows_auth", << server, database >>)
            /\ Tail(out.calls) = chosen.calls
            /\ out.ret = chosen.ret
            /\ out.raised = chosen.raised

\* with a user name and an empty password and no server set, Windows
\* authentication against localhost returned a connection
C16_Witness ==
    /\ out.op = "get_connection_from_env"
    /\ environ["SQL_USERNAME"] = Some("envuser")
    /\ environ["SQL_PASSWORD"] = Some("")
    /\ IsNone(environ["SQL_SERVER"])
    /\ out.calls[1].fn = "connect_windows_auth"
    /\ out.calls[1].args[1] = "localhost"
    /\ ~IsNone(out.ret)

(* ------------------------------- C17 ---------------------------------- *)

\* C17: test_connection never raises.  When cursor, execute and fetchone
\* succeed it returns success True with version and current_time, the values
\* of the row or "Unknown" for both without a row; when one of them raises it
\* returns success False with an error field and no version field.
C17_TestConnectionNeverRaises ==
    out.op = "test_connection" =>
        /\ IsNone(out.raised)
        /\ ~IsNone(out.ret)
        /\ LET b == out.given
               result == Val(out.ret)
           IN  IF IsNone(b.cursor) /\ IsNone(b.execute) /\ IsNone(b.fetchone_raises)
               THEN /\ DOMAIN result = {"success", "version", "current_time"}
                    /\ result.success = TRUE
                    /\ IF IsNone(b.row)
                       THEN /\ result.version = "Unknown"
                            /\ result.current_time = "Unknown"
                       ELSE /\ result.version = Val(b.row).version
                            /\ result.current_time = Val(b.row).current_time
               ELSE /\ "error" \in DOMAIN result
                    /\ "version" \notin DOMAIN result
                    /\ result.success = FALSE

\* the query ran and fetchone returned no row
C17_Witness ==
    /\ out.op = "test_connection"
    /\ Len(out.calls) = 3
    /\ IsNone(out.given.fetchone_raises)
    /\ IsNone(out.given.row)
    /\ Val(out.ret).success = TRUE
    /\ Val(out.ret).version = "Unknown"

(* ------------------------------- C18 ---------------------------------- *)

\* C18: get_user_by_id raises ValueError for an empty user id without calling
\* the Graph client; otherwise it calls it once and returns None when the
\* client returns no user or raises an error with code
\* Request_ResourceNotFound, raises again every other exception of the
\* client, and for a user returns the dictionary of the user's values that
\* holds no key whose value is None.
C18_GetUserById ==
    out.op = "get_user_by_id" =>
        LET user_id == out.args[1]
            g == out.given
        IN  IF IsNone(user_id) \/ Val(user_id) = ""
            THEN /\ ~IsNone(out.raised)
                 /\ Val(out.raised).type = "ValueError"
                 /\ out.calls = << >>
            ELSE /\ out.calls = << CallTo("users.by_user_id.get", << Val(user_id) >>) >>
                 /\ IF ~IsNone(g.raised)
                    THEN IF /\ Val(g.raised).type = "ODataError"
                            /\ ~IsNone(Val(g.raised).error)
                            /\ Val(Val(g.raised).error).code
                                  = Some("Request_ResourceNotFound")
                         THEN IsNone(out.raised) /\ IsNone(out.ret)
                         ELSE out.raised = g.raised
                    ELSE /\ IsNone(out.raised)
                         /\ IF IsNone(g.user)
                            THEN IsNone(out.ret)
                            ELSE /\ ~IsNone(out.ret)
                                 /\ LET d == Val(out.ret)
                                        all == UserData(Val(g.user))
                                    IN  /\ DOMAIN d \subseteq DOMAIN all
                                        /\ \A k \in DOMAIN d :
                                              ~IsNone(d[k]) /\ d[k] = all[k]
                                        /\ \A k \in DOMAIN all :
                                              ~IsNone(all[k]) => k \in DOMAIN d

\* a user without mail, with an empty job title and an empty list of phones:
\* the dictionary returned has no email key and keeps the two empty values
C18_Witness ==
    /\ out.op = "get_user_by_id"
    /\ IsNone(out.raised)
    /\ ~IsNone(out.ret)
    /\ IsNone(Val(out.given.user)["mail"])
    /\ "email" \notin DOMAIN Val(out.ret)
    /\ "mobile_phone" \notin DOMAIN Val(out.ret)
    /\ {"job_title", "business_phones"} \subseteq DOMAIN Val(out.ret)
    /\ Val(out.ret)["job_title"] = Some("")
    /\ Val(out.ret)["business_phones"] = Some(<< >>)

(* ------------------------------- C19 ---------------------------------- *)

\* C19: constructing EntraUserLookupAgent raises ValueError whenever one of
\* AZURE_CLIENT_ID, AZURE_CLIENT_SECRET, AZURE_TENANT_ID is unset or empty,
\* and then neither the credential nor the Graph client is created and no
\* agent exists; when all three are non-empty both are created, the Graph
\* client on the credential.
C19_ConstructorNeedsCredentials ==
    LET IsSet(n) == ~IsNone(environ[n]) /\ Val(environ[n]) # ""
        complete == /\ IsSet("AZURE_CLIENT_ID")
                    /\ IsSet("AZURE_CLIENT_SECRET")
                    /\ IsSet("AZURE_TENANT_ID")
    IN  /\ ~IsNone(agent) => complete
        /\ out.op = "EntraUserLookupAgent" =>
              IF ~complete
              THEN /\ ~IsNone(out.raised)
                   /\ Val(out.raised).type = "ValueError"
                   /\ out.calls = << >>
                   /\ IsNone(out.ret)
                   /\ IsNone(agent)
              ELSE /\ IsNone(out.raised)
                   /\ ~IsNone(agent)
                   /\ agent = out.ret
                   /\ Len(out.calls) = 2
                   /\ out.calls[1].fn = "ClientSecretCredential"
                   /\ out.calls[1].args = << environ["AZURE_TENANT_ID"],
                                             environ["AZURE_CLIENT_ID"],
                                             environ["AZURE_CLIENT_SECRET"] >>
                   /\ out.calls[2] = CallTo("GraphServiceClient",
                                            << Val(agent).credential >>)
                   /\ Val(agent).graph_client.credentials = Val(agent).credential

\* the constructor raised with the client id and the tenant id set and the
\* client secret set to the empty string
C19_Witness ==
    /\ out.op = "EntraUserLookupAgent"
    /\ environ["AZURE_CLIENT_ID"] = Some("client-id")
    /\ environ["AZURE_TENANT_ID"] = Some("tenant-id")
    /\ environ["AZURE_CLIENT_SECRET"] = Some("")
    /\ ~IsNone(out.raised)
    /\ IsNone(agent)

(* ------------------------------- C20 ---------------------------------- *)

\* the steps a fit in progress can still take: two for every iteration not yet
\* begun, one for an iteration whose update step is due
StepsLeft == 2 * (max_iter - it) + (IF pc = "update" THEN 1 ELSE 0)

\* C20: fit always terminates.  The loop body runs at most M times; a fit in
\* progress is at its assignment step or at its update step (neither has a
\* guard besides that position), and every step either ends fit or lowers
\* the number of steps left, which is positive while fit runs.  An iteration
\* whose new centroids are close to the current ones ends fit and leaves the
\* centroids as they are; every other iteration replaces the centroids by
\* the new ones, and fit goes on exactly when iterations remain.
C20_FitTerminates ==
    /\ [](it <= max_iter \/ it = 0)
    /\ [](pc # "idle" => (StepsLeft >= 1 /\ pc \in {"assign", "update"}))
    /\ [][ pc # "idle" => (pc' = "idle" \/ StepsLeft' < StepsLeft) ]_vars
    /\ [][ pc = "update" =>
             LET new_centroids ==
                   UpdateCentroids(Val(X), Val(labels), n_clusters)
             IN  IF AllClose(Val(centroids), new_centroids)
                 THEN /\ centroids' = centroids
                      /\ pc' = "idle"
                      /\ last_fit' = "returned"
                 ELSE /\ centroids' = Some(new_centroids)
                      /\ pc' = IF it < max_iter THEN "assign" ELSE "idle"
         ]_vars

\* a fit with a budget of three iterations that stopped in its second, with
\* the centroids its first iteration stored
C20_Witness ==
    /\ ValidRun
    /\ max_iter = 3
    /\ last_fit = "returned"
    /\ it = 2
    /\ Val(centroids) # Take(Val(X), initial_indices)
    /\ Val(centroids) = UpdateCentroids(Val(X), Val(labels), n_clusters)

(* ------------------------------- C21 ---------------------------------- *)

\* label l (0-based) is, for point x, the lowest index of a centroid of C at
\* minimum squared distance from x
NearestLowest(x, C, l) ==
    /\ l + 1 \in 1..Len(C)
    /\ \A m \in 1..Len(C) : RatLeq(Dist2(x, C[l + 1]), Dist2(x, C[m]))
    /\ \A m \in 1..l : Dist2(x, C[m]) # Dist2(x, C[l + 1])

\* C21: in a valid run, the labels an assignment step of fit has just stored,
\* and the labels a predict returns, give each point the index of a centroid
\* at minimum Euclidean distance from it, the lowest such index when several
\* centroids are at that distance.
C21_NearestLowestIndex ==
    /\ (ValidRun /\ pc = "update") =>
          \A p \in 1..N :
             NearestLowest(Val(X)[p], Val(centroids), Val(labels)[p])
    /\ (ValidRun /\ call.op = "predict" /\ call.raised = "none") =>
          \A p \in 1..Len(Val(call.arg)) :
             NearestLowest(Val(call.arg)[p], Val(centroids), Val(call.ret)[p])

(* ------------------------------- C22 ---------------------------------- *)

\* fit has stored the initial centroids and no iteration has begun
Initialised == last_fit \in {"running", "returned"} /\ it = 0

\* C22: the initial centroids of a fit with K <= N are the values of the
\* points at K pairwise distinct indices of the PointSet, and they are
\* copies: a step that replaces the centroids leaves the PointSet as it is.
C22_InitialCentroidsDistinctCopies ==
    /\ []( (Initialised /\ n_clusters <= N) =>
             /\ Len(initial_indices) = n_clusters
             /\ \A j \in 1..n_clusters : initial_indices[j] \in 0..(N - 1)
             /\ PairwiseDistinct(initial_indices)
             /\ Len(Val(centroids)) = n_clusters
             /\ \A j \in 1..n_clusters : \A k \in 1..Dim(Val(X)) :
                   Val(centroids)[j][k]
                      = [n |-> Val(X)[initial_indices[j] + 1][k], d |-> 1] )
    /\ [][ (pc = "update" /\ centroids' # centroids) => X' = X ]_vars

\* fit has just copied two of three two-dimensional points as centroids
C22_Witness ==
    /\ Initialised
    /\ pc = "assign"
    /\ n_clusters = 2
    /\ N = 3
    /\ Dim(Val(X)) = 2
    /\ initial_indices[1] > initial_indices[2]

(* ------------------------------- C23 ---------------------------------- *)

\* coordinate k of the arithmetic mean of the points of the fit labelled i
\* (cluster i not empty): the sum of their coordinates over their number
MeanOfLabelled(i, k) ==
    LET S == {p \in 1..N : Val(labels)[p] = i}
    IN  Rat(SumCoord(Val(X), S, k), Cardinality(S))

\* C23: the update step works on the labels the assignment step of the same
\* iteration has stored; when it replaces the centroids, the new centroid of
\* every index 0..K-1 that has a point is, in each dimension, the arithmetic
\* mean of exactly the points labelled with that index; when it does not
\* replace them, every centroid is within the tolerance of that mean.
C23_UpdateIsMeanOfLabelled ==
    /\ [](pc = "update" =>
            labels = Some(AssignLabels(Val(X), Val(centroids))))
    /\ [][ pc = "update" =>
             \A i \in 0..(n_clusters - 1) :
                (\E p \in 1..N : Val(labels)[p] = i) =>
                   \A k \in 1..Dim(Val(X)) :
                      IF centroids' # centroids
                      THEN Val(centroids')[i + 1][k] = MeanOfLabelled(i, k)
                      ELSE IsClose(Val(centroids)[i + 1][k], MeanOfLabelled(i, k))
         ]_vars

\* the first update step of a fit of three points into two clusters stored a
\* centroid that is the mean of two points and not a point itself
C23_Witness ==
    /\ pc = "assign"
    /\ it = 1
    /\ n_clusters = 2
    /\ N = 3
    /\ \E j \in 1..2 : Val(centroids)[j][1].d = 2

(* ------------------------------- C24 ---------------------------------- *)

\* C24: in main, at most one connection is open at any time; a connection a
\* connect function returned is open while it is tested and is closed by the
\* very next call the driver receives, whatever test_connection reported, so
\* that none is open when the next connect call is made or when main
\* returns; a close call is made only on the connection the preceding
\* connect call returned, never after a connect call that failed; main ends
\* by an exception only when a close call raised.
C24_ConnectionsClosed ==
    /\ Len(world.open) <= 1
    /\ at \in {"example1", "example2", "env", "done"} => world.open = << >>
    /\ at \in {"test1", "test2", "close1", "close2", "close3"} =>
          (~IsNone(local.conn) /\ world.open = << Val(local.conn) >>)
    /\ \A i \in 1..Len(world.events) :
          LET e == world.events[i]
          IN  /\ e.fn = "close" =>
                    /\ i > 1
                    /\ world.events[i - 1].fn = "pyodbc.connect"
                    /\ world.events[i - 1].ret = Some(e.args[1])
                    /\ ~IsNone(e.raised) <=> (at = "raised" /\ i = Len(world.events))
              /\ (e.fn = "pyodbc.connect" /\ ~IsNone(e.ret)) =>
                    IF i = Len(world.events)
                    THEN at \in {"test1", "test2", "close1", "close2", "close3"}
                    ELSE /\ world.events[i + 1].fn = "close"
                         /\ world.events[i + 1].args[1] = Val(e.ret)
    /\ at = "raised" =>
          (world.events # << >> /\ world.events[Len(world.events)].fn = "close")

\* main returned after three connections were opened and closed, the second
\* of them after test_connection reported success = False
C24_Witness ==
    /\ at = "done"
    /\ Len(world.events) = 6
    /\ world.open = << >>
    /\ ~Val(local.test_result).success

(* ------------------------------- C25 ---------------------------------- *)

\* the Graph client received no call since the last choice was entered
NoGraphCall == \A i \in 1..Len(world.events) : world.events[i].fn \notin GraphCalls

\* the positions of main inside its while loop
InLoop == at \in {"menu", "term", "call", "continue"}

\* C25: the menu loop is left only on choice 4 (after strip) or by an
\* exception; an unrecognised choice prints the error and shows the menu
\* again without a Graph call; an empty term or id leads back to the menu
\* without a Graph call; a search or lookup that raises ends main, one that
\* returns leads back to the menu.
C25_MenuLoop ==
    /\ []( /\ (at = "ended" /\ ~IsNone(agent)) =>
                  \/ IsNone(local.raised) /\ local.choice = << "4" >> /\ NoGraphCall
                  \/ ~IsNone(local.raised)
           /\ (at = "menu" /\ local.choice # << >>
                  /\ local.choice \notin {<< "1" >>, << "2" >>, << "3" >>}) =>
                  world.events =
                     << Printed("Invalid choice. Please enter 1, 2, 3, or 4.") >> \o Menu
           /\ (at = "continue" /\ local.term = << >>) => NoGraphCall
           /\ (at = "continue" /\ local.term # << >>) =>
                  (IsNone(out.raised) /\ ~NoGraphCall) )
    /\ [][ /\ (InLoop /\ at' = "ended") =>
                  \/ at = "menu" /\ local'.choice = << "4" >> /\ IsNone(local'.raised)
                  \/ ~IsNone(local'.raised)
           /\ (at = "menu" /\ local'.choice = << "4" >>) => at' = "ended"
           /\ (at = "call" /\ ~IsNone(out'.raised)) =>
                  (at' = "ended" /\ local'.raised = out'.raised)
           /\ (at = "call" /\ IsNone(out'.raised)) => at' = "continue"
           /\ (at = "continue" /\ IsNone(local'.raised)) =>
                  (at' = "menu" /\ world'.events = world.events \o Menu)
         ]_vars

\* a search reached the Graph client, which raised, and main ended
C25_Witness ==
    /\ at = "ended"
    /\ ~IsNone(agent)
    /\ out.op = "search_users_by_name"
    /\ ~IsNone(out.raised)
    /\ ~NoGraphCall
    /\ local.choice = << "1" >>
    /\ local.term = << "ada" >>

(* ------------------------------- C26 ---------------------------------- *)

\* the four checks in the order of the list
CheckNames ==
    << "check_windows_env_variables", "check_optional_vars",
       "check_dependencies", "check_agent_import" >>

\* the checks run so far that returned True
PassedSoFar ==
    {i \in 1..Len(world.events) :
        IsNone(world.events[i].raised) /\ world.events[i].ret = Some(TRUE)}

\* a required variable is set, not blank, and has neither 'your-' nor
\* 'example' in it, whatever the case
ProperlySet(value) ==
    /\ ~IsNone(value)
    /\ \E i \in 1..Len(Val(value)) : Val(value)[i] \notin Whitespace
    /\ \A i \in 1..Len(Val(value)) :
          Val(value)[i] \notin {"your-", "YOUR-", "example", "Example", "EXAMPLE"}

\* C26: main calls the four checks in order, whatever the earlier ones
\* returned or raised; passed counts the checks that returned True; main
\* returns 0 exactly when all four did and 1 otherwise;
\* check_windows_env_variables returns True exactly when the three required
\* variables are properly set.
C26_SetupChecks ==
    /\ at # "raised"
    /\ at \in {"check1", "check2", "check3", "check4", "results", "done"} =>
          /\ Len(world.events) = (CASE at = "check1" -> 0 [] at = "check2" -> 1
                                    [] at = "check3" -> 2 [] at = "check4" -> 3
                                    [] OTHER -> 4)
          /\ \A i \in 1..Len(world.events) : world.events[i].fn = CheckNames[i]
          /\ local.passed = Cardinality(PassedSoFar)
          /\ local.total = Len(CheckNames)
    /\ Len(world.events) >= 1 =>
          (world.events[1].ret = Some(TRUE) <=>
              \A v \in 1..Len(required_vars) : ProperlySet(environ[required_vars[v]]))
    /\ at = "done" =>
          /\ local.ret \in {Some(0), Some(1)}
          /\ local.ret = Some(0) <=> Cardinality(PassedSoFar) = 4

\* main returned 1 after the third check raised and the three others passed
C26_Witness ==
    /\ at = "done"
    /\ local.ret = Some(1)
    /\ local.passed = 3
    /\ ~IsNone(world.events[3].raised)
    /\ world.events[4].ret = Some(TRUE)

(* ------------------------------- C27 ---------------------------------- *)

\* the runs the runner was asked for, as names of the agents
AgentsRun == [i \in 1..Len(world.events) |-> world.events[i].args[1].name]

\* C27: run_workflow asks the runner for the classifier first and, once that
\* run has returned, whatever its output, for the second agent, and for
\* nothing else; the second run's input is the user's message followed by
\* the input items of all new items of the first run; the output_text
\* returned is the final output of the second run.
C27_TwoAgentsInOrder ==
    /\ at = "my_agent" => AgentsRun = << >>
    /\ at = "agent" =>
          (AgentsRun = << "My agent" >> /\ IsNone(world.events[1].raised))
    /\ at = "done" =>
          (AgentsRun = << "My agent", "Agent" >> /\ IsNone(world.events[2].raised))
    /\ at = "raised" =>
          /\ AgentsRun \in { << "My agent" >>, << "My agent", "Agent" >> }
          /\ ~IsNone(world.events[Len(world.events)].raised)
    /\ Len(world.events) >= 1 =>
          world.events[1].args[2] = << UserMessage(local.workflow.input_as_text) >>
    /\ Len(world.events) = 2 =>
          /\ IsNone(world.events[1].raised)
          /\ LET first == Val(world.events[1].ret).new_items
             IN  /\ Len(world.events[2].args[2]) = 1 + Len(first)
                 /\ world.events[2].args[2][1] =
                       UserMessage(local.workflow.input_as_text)
                 /\ \A i \in 1..Len(first) :
                       world.events[2].args[2][1 + i] = first[i].raw_item
    /\ at = "done" =>
          out.ret = Some([output_text |-> Val(world.events[2].ret).final_output])

\* the workflow returned "9" after the classifier, given a question that is
\* not about mathematics, produced two items and answered "Shoo Shoo"
C27_Witness ==
    /\ at = "done"
    /\ local.workflow.input_as_text = "What's the weather like?"
    /\ Len(Val(world.events[1].ret).new_items) = 2
    /\ Val(world.events[1].ret).final_output = "Shoo Shoo"
    /\ Val(out.ret).output_text = "9"

====
